---- MODULE Spec2Model ----
(***************************************************************************)
(* A model of the split-value mix-net election simulator: the proof server *)
(* (src/src/proof_server.py), the bulletin board (src/src/sbb.py), the     *)
(* verifier (src/src/verifier.py) and the split-value helpers              *)
(* (src/src/util.py).                                                      *)
(*                                                                         *)
(* Python lists are modelled as 1-based sequences; a Python index i is the *)
(* sequence index i + 1.  Round indices that travel as data (list_idx,     *)
(* proof_lists, outcome_lists) keep the source's 0-based values.           *)
(*                                                                         *)
(* Every random draw of the program (os.urandom, random.shuffle) is read   *)
(* from the tape rng, a sequence fixed at construction and read            *)
(* cyclically: the behaviours of the model are behaviours of the program   *)
(* for the random streams that repeat with period Len(rng).                *)
(***************************************************************************)
EXTENDS Integers, Sequences, FiniteSets, TLC

\* Election.__init__ parameters, instantiated small: M is prime, rows is the
\* mix-net width.
M == 3
rows == 2

\* Bounds of the exploration.
MaxVoters == 2        \* num_voters ranges over 1..MaxVoters
MaxHalfRounds == 2    \* m ranges over 1..MaxHalfRounds, twoM = 2 * m
RandTapeLen == 4      \* period of the random stream
RandMax == 2          \* a random draw is a value in 0..RandMax
KeyLen == 2           \* bytes of a commitment key (16 in the source)
MixMaxVoters == 3     \* num_voters ranges over 1..MixMaxVoters in SpecMix

VARIABLES
    rng,                        \* the random stream still to be read
    twoM,                       \* ProofServer._twoM, SBB._twoM
    num_voters,                 \* SBB._num_voters, Verifier._num_voters
    incoming_vote_rows,         \* ProofServer._incoming_vote_rows
    num_votes,                  \* ProofServer._num_votes
    initial_sv,                 \* ProofServer._initial_sv
    permutation_arrays,         \* ProofServer._permutation_arrays
    commitment_arrays,          \* ProofServer._commitment_arrays
    unmixed_commitment_arrays,  \* ProofServer._unmixed_commitment_arrays
    sbb_ballot_receipts,        \* SBB._ballot_receipts
    sbb_svr_commitments,        \* SBB._svr_commitments
    sbb_consistency_proof,      \* SBB.consistency_proof
    db,                         \* the lines written to sbb.txt
    flushed,                    \* how many of them a reader of the file sees
    db_closed,                  \* whether SBB.close has been called
    voter_receipts,             \* Voter.bid and Voter.ballot_hash, per voter
    voter_result,               \* how the voters' verification ended
    handle_result,              \* how a handle_vote call from outside ended
    send_result,                \* how the last Tablet.send_vote call ended
    pc,                         \* the step of the protocol reached
    votes,                      \* the ballot values cast, in cast order
    proof_lists,                \* the challenge: rounds opened for consistency
    outcome_lists,              \* the challenge: rounds opened for the outcome
    select_u_v,                 \* the side opened per vote in the proof
    mix_result,                 \* how mix_votes ended
    consistency_result,         \* how verify_ballot_consistency ended
    tally_result,               \* how tally_and_verify_election_outcome ended
    last_call                   \* the last call of a routine on its own: name, arguments, return

vars == <<rng, twoM, num_voters, incoming_vote_rows, num_votes, initial_sv,
          permutation_arrays, commitment_arrays, unmixed_commitment_arrays,
          sbb_ballot_receipts, sbb_svr_commitments, sbb_consistency_proof,
          db, flushed, db_closed, voter_receipts, voter_result, handle_result, send_result,
          pc, votes, proof_lists, outcome_lists, select_u_v,
          mix_result, consistency_result, tally_result, last_call>>

psVars == <<incoming_vote_rows, num_votes, initial_sv, permutation_arrays,
            commitment_arrays, unmixed_commitment_arrays>>
sbbVars == <<sbb_ballot_receipts, sbb_svr_commitments, sbb_consistency_proof,
             db, flushed, db_closed>>
voterVars == <<voter_receipts, voter_result, handle_result, send_result>>
challengeVars == <<proof_lists, outcome_lists, select_u_v>>
resultVars == <<mix_result, consistency_result, tally_result>>

----------------------------------------------------------------------------
\* Sequence helpers.

RECURSIVE SumSeq(_)
SumSeq(s) == IF s = <<>> THEN 0 ELSE s[1] + SumSeq(Tail(s))

RECURSIVE StripTrailingZeros(_)
StripTrailingZeros(bs) ==
    IF bs = <<>> THEN <<>>
    ELSE IF bs[Len(bs)] = 0 THEN StripTrailingZeros(SubSeq(bs, 1, Len(bs) - 1))
    ELSE bs

\* The k-th value of the random stream t (k counts from 0), read cyclically.
Draw(t, k) == t[(k % Len(t)) + 1]

\* The stream after k draws.
Advance(t, k) == [i \in 1..Len(t) |-> Draw(t, k + i - 1)]

\* os.urandom(len) read at offset o of the stream: len bytes.
urandom(t, o, len) == [i \in 1..len |-> Draw(t, o + i - 1)]

----------------------------------------------------------------------------
\* util.py

RECURSIVE bytes_to_bigint(_)
bytes_to_bigint(byte_list) ==
    IF byte_list = <<>> THEN 0
    ELSE byte_list[1] + 256 * bytes_to_bigint(Tail(byte_list))

\* An encoding of fixed width: two bytes.
bigint_to_bytes_two(bigint) == <<bigint % 256, (bigint \div 256) % 256>>

RECURSIVE bigint_to_bytes(_)
bigint_to_bytes(bigint) ==
    IF bigint \div 256 = 0 THEN <<bigint % 256>>
    ELSE <<bigint % 256>> \o bigint_to_bytes(bigint \div 256)

val(u, v, m) == (u + v) % m

\* util.t_val is called by the proof server and the verifier with two byte
\* strings and M; util.py does not define it.  Modelled from the
\* specification: t_val(a, b, M) = (b - a) mod M on the decoded integers.
t_val(a, b, m) == (bytes_to_bigint(b) - bytes_to_bigint(a)) % m

\* HMAC-SHA256(K, u) as an integer: a symbolic digest, injective in the
\* message and in the key up to HMAC's own zero padding of a short key.
get_COM(K, u) == [key |-> StripTrailingZeros(K), msg |-> u]

\* get_SV at stream offset o: one draw.
get_SV(x, m, t, o) ==
    LET u == Draw(t, o) % m
    IN  <<u, (x - u) % m>>

\* get_SVR at stream offset o: K1, K2, then get_SV's draw.
SVRDraws == 2 * KeyLen + 1
get_SVR(x, m, t, o) ==
    LET sv == get_SV(x, m, t, o + 2 * KeyLen)
    IN  [k1 |-> urandom(t, o, KeyLen),
         k2 |-> urandom(t, o + KeyLen, KeyLen),
         u |-> bigint_to_bytes(sv[1]),
         v |-> bigint_to_bytes(sv[2])]

\* get_SV_multiple with the last component left unreduced.
get_SV_multiple_unreduced(x, n, m, t, o) ==
    LET split == [i \in 1..(n - 1) |-> Draw(t, o + i - 1) % m]
    IN  Append(split, x - SumSeq(split))

\* get_SV_multiple at stream offset o: n - 1 draws.
get_SV_multiple(x, n, m, t, o) ==
    LET split == [i \in 1..(n - 1) |-> Draw(t, o + i - 1) % m]
        total == SumSeq(split)
    IN  Append(split, (x - total) % m)

\* The value an SVR splits.
svr_val(svr) == val(bytes_to_bigint(svr.u), bytes_to_bigint(svr.v), M)

\* The commitment pair of an SVR, as the SBB posts it.
svr_com(svr) == [com_u |-> get_COM(svr.k1, svr.u), com_v |-> get_COM(svr.k2, svr.v)]

----------------------------------------------------------------------------
\* sbb.py: the transcript.  A line of sbb.txt is a heading or a JSON record.

BALLOT_RECEIPTS == "ballot_receipts"
ORIGINAL_ORDER_COMMITMENTS == "original_order_commitments"
MIXNET_VOTE_COMMITMENT_LIST == "mixnet_vote_commitment_list"
END_SECTION == "end_section"
ELECTION_OUTCOME == "election_outcome"
T_VALUE_COMMITMENT_LIST == "tvalue_commitment_list"
CONSISTENCY_PROOF == "consistency_proof"

TextLine(s) == [kind |-> "text", text |-> s]
JsonLine(v) == [kind |-> "json", json |-> v]
IsText(line, s) == line.kind = "text" /\ line.text = s

----------------------------------------------------------------------------
\* sv_vote.py and the tablet's symmetric channel.

\* ProofServer._tablet_decoders after the one tablet has registered.
tablet_decoders == [t \in {"tablet1"} |-> "sk_tablet1"]

\* Fernet encryption of the four SVR fields under the tablet's key.
encrypt(key, svr) == [key |-> key, pt |-> svr]

\* EncCom.decode: the plaintext under the key that encrypted it.
decode(enc, decoder) == IF enc.key = decoder THEN enc.pt ELSE "InvalidToken"

----------------------------------------------------------------------------
\* proof_server.py: mixing.

\* random.shuffle of x (Fisher-Yates from the last position down), for
\* position i (0-based) and the positions below it; one draw per position.
RECURSIVE shuffle(_, _, _, _)
shuffle(x, i, t, o) ==
    IF i < 1 THEN x
    ELSE LET j == Draw(t, o) % (i + 1)
             swapped == [x EXCEPT ![i + 1] = x[j + 1], ![j + 1] = x[i + 1]]
         IN  shuffle(swapped, i - 1, t, o + 1)

\* The permutation applied forwards instead of inverted.
_forward_permutation(permutation, values) ==
    [p \in 1..Len(values) |-> values[permutation[p] + 1]]

_reverse_permutation(permutation, values) ==
    [p \in 1..Len(values) |->
        LET from == {i \in 1..Len(values) : permutation[i] = p - 1}
        IN  IF from = {} THEN "None"
            ELSE values[CHOOSE i \in from : \A k \in from : k <= i]]

\* Draws of one column of one round, and of one round, for n votes.
ColDraws(n) == (IF n > 0 THEN n - 1 ELSE 0) + n * (rows - 1)
RoundDraws(n) == rows * ColDraws(n) + rows * n * SVRDraws

\* The validation reading com_u only.
vote_opens_u(vote) ==
    LET plaintext_svr == decode(vote.enc, tablet_decoders[vote.tablet_id])
    IN  get_COM(plaintext_svr.k1, plaintext_svr.u) = vote.com_u

\* Whether the decrypted SVR of a stored vote opens the vote's commitments.
vote_opens(vote) ==
    LET plaintext_svr == decode(vote.enc, tablet_decoders[vote.tablet_id])
    IN  /\ get_COM(plaintext_svr.k1, plaintext_svr.u) = vote.com_u
        /\ get_COM(plaintext_svr.k2, plaintext_svr.v) = vote.com_v

\* The decryption loop of _mix_round over the stored rows: the first row
\* (1-based) holding a vote that fails validation, 0 when there is none.
first_bad_row(in_rows) ==
    LET bad == {r \in 1..Len(in_rows) :
                   \E j \in 1..Len(in_rows[r]) : ~vote_opens(in_rows[r][j])}
    IN  IF bad = {} THEN 0 ELSE CHOOSE r \in bad : \A q \in bad : r <= q

\* The assertion that ends the decryption of a row: the first row (1-based)
\* that does not hold n votes, 0 when there is none.
first_miscounted_row(in_rows, n) ==
    LET off == {r \in 1..Len(in_rows) : Len(in_rows[r]) # n}
    IN  IF off = {} THEN 0 ELSE CHOOSE r \in off : \A q \in off : r <= q

decrypted_row(in_row) ==
    [j \in 1..Len(in_row) |-> decode(in_row[j].enc, tablet_decoders[in_row[j].tablet_id])]

\* The decryption loop appending the row it decrypted in every round.
RECURSIVE record_initial_every_round(_, _, _, _)
record_initial_every_round(isv, in_rows, r, upto) ==
    IF r > upto THEN isv
    ELSE record_initial_every_round(Append(isv, decrypted_row(in_rows[r])), in_rows, r + 1, upto)

\* initial_sv after the decryption loop has passed the first upto rows: a row
\* is appended while fewer than `rows` rows are recorded.
RECURSIVE record_initial(_, _, _, _)
record_initial(isv, in_rows, r, upto) ==
    IF r > upto THEN isv
    ELSE record_initial(IF Len(isv) < rows THEN Append(isv, decrypted_row(in_rows[r])) ELSE isv,
                        in_rows, r + 1, upto)

\* initial_sv after the decryption loops of k rounds of _mix_round.
RECURSIVE record_initial_rounds(_, _, _)
record_initial_rounds(isv, in_rows, k) ==
    IF k = 0 THEN isv
    ELSE record_initial_rounds(record_initial(isv, in_rows, 1, rows), in_rows, k - 1)

\* One column with every row obfuscated by the first component of each
\* obfuscation tuple.
mix_column_first_component(row_values, n, t, o) ==
    LET pi == shuffle([i \in 1..n |-> i - 1], n - 1, t, o)
        obfuscation_tuples ==
            [j \in 1..n |-> get_SV_multiple(0, rows, M, t, o + (IF n > 0 THEN n - 1 ELSE 0) + (j - 1) * (rows - 1))]
        obfuscated_components ==
            [r \in 1..rows |-> [j \in 1..n |-> val(obfuscation_tuples[j][1], row_values[r][j], M)]]
    IN  [pi |-> pi,
         row_values |-> [r \in 1..rows |-> [k \in 1..n |-> obfuscated_components[r][pi[k] + 1]]]]

\* One column of obfuscation and shuffling: the permutation drawn and the
\* row values after it.
mix_column(row_values, n, t, o) ==
    LET pi == shuffle([i \in 1..n |-> i - 1], n - 1, t, o)
        obfuscation_tuples ==
            [j \in 1..n |-> get_SV_multiple(0, rows, M, t, o + (IF n > 0 THEN n - 1 ELSE 0) + (j - 1) * (rows - 1))]
        obfuscated_components ==
            [r \in 1..rows |-> [j \in 1..n |-> val(obfuscation_tuples[j][r], row_values[r][j], M)]]
    IN  [pi |-> pi,
         row_values |-> [r \in 1..rows |-> [k \in 1..n |-> obfuscated_components[r][pi[k] + 1]]]]

\* The loop over the columns left after its first pass.
mix_columns_once(row_values, perms, col, n, t, o) ==
    LET c == mix_column(row_values, n, t, o + col * ColDraws(n))
    IN  [row_values |-> c.row_values, permutation_arrays |-> Append(perms, c.pi)]

RECURSIVE mix_columns(_, _, _, _, _, _)
mix_columns(row_values, perms, col, n, t, o) ==
    IF col >= rows THEN [row_values |-> row_values, permutation_arrays |-> perms]
    ELSE LET c == mix_column(row_values, n, t, o + col * ColDraws(n))
         IN  mix_columns(c.row_values, Append(perms, c.pi), col + 1, n, t, o)

\* _mix_round on stored votes that all pass validation, at stream offset o.
_mix_round(in_rows, n, t, o) ==
    LET row_values == [r \in 1..rows |-> [j \in 1..n |-> svr_val(decrypted_row(in_rows[r])[j])]]
        mixed == mix_columns(row_values, <<>>, 0, n, t, o)
        o2 == o + rows * ColDraws(n)
        round_commitments ==
            [r \in 1..rows |-> [i \in 1..n |->
                get_SVR(mixed.row_values[r][i], M, t, o2 + ((r - 1) * n + (i - 1)) * SVRDraws)]]
        com_t == [i \in 1..n |-> [r \in 1..rows |-> svr_com(round_commitments[r][i])]]
    IN  [permutation_arrays |-> mixed.permutation_arrays,
         round_commitments |-> round_commitments,
         com_t |-> com_t]

\* The 2m rounds of mix_votes.
all_rounds(in_rows, n, two_m, t) ==
    [k \in 1..two_m |-> _mix_round(in_rows, n, t, (k - 1) * RoundDraws(n))]

\* A round left in its mixed order.
unmix_round_skipped(round_commitments, perms, c) == round_commitments

\* _unmix_commitments for one round: the round's permutations replayed in
\* reverse over every row.
RECURSIVE unmix_round(_, _, _)
unmix_round(round_commitments, perms, c) ==
    IF c < 1 THEN round_commitments
    ELSE unmix_round([r \in 1..Len(round_commitments) |->
                         _reverse_permutation(perms[c], round_commitments[r])],
                     perms, c - 1)

_unmix_commitments(commitments, perms) ==
    [k \in 1..Len(commitments) |-> unmix_round(commitments[k], perms[k], Len(perms[k]))]

\* The t-value array with every round given the first round's values.
t_values_of_first_round(unmixed, isv) ==
    [k \in 1..Len(unmixed) |-> [r \in 1..Len(unmixed[1]) |-> [j \in 1..Len(isv[r]) |->
        [tu |-> t_val(isv[r][j].u, unmixed[1][r][j].u, M),
         tv |-> t_val(isv[r][j].v, unmixed[1][r][j].v, M)]]]]

\* The t-value array of _publish_t_values, indexed [round][row][vote].
t_values_of(unmixed, isv) ==
    [k \in 1..Len(unmixed) |-> [r \in 1..Len(unmixed[k]) |-> [j \in 1..Len(isv[r]) |->
        [tu |-> t_val(isv[r][j].u, unmixed[k][r][j].u, M),
         tv |-> t_val(isv[r][j].v, unmixed[k][r][j].v, M)]]]]

----------------------------------------------------------------------------
\* Construction.

\* The state after Election.__init__ for an election of at most max_voters
\* voters and 2 * m rounds, m in half_rounds.
InitWith(max_voters, half_rounds) ==
    /\ rng \in [1..RandTapeLen -> 0..RandMax]
    /\ twoM \in {2 * m : m \in half_rounds}
    /\ num_voters \in 1..max_voters
    /\ incoming_vote_rows = [r \in 1..rows |-> <<>>]
    /\ num_votes = 0
    /\ initial_sv = <<>>
    /\ permutation_arrays = <<>>
    /\ commitment_arrays = <<>>
    /\ unmixed_commitment_arrays = <<>>
    /\ sbb_ballot_receipts = <<>>
    /\ sbb_svr_commitments = <<>>
    /\ sbb_consistency_proof = <<>>
    /\ db = <<>>
    /\ flushed = 0
    /\ db_closed = FALSE
    /\ voter_receipts = <<>>
    /\ voter_result = "none"
    /\ handle_result = "none"
    /\ send_result = "none"
    /\ pc = "voting"
    /\ votes = <<>>
    /\ proof_lists = {}
    /\ outcome_lists = {}
    /\ select_u_v = <<>>
    /\ mix_result = "none"
    /\ consistency_result = "none"
    /\ tally_result = [status |-> "none", tally |-> [x \in 0..(M - 1) |-> 0],
                       winners |-> <<>>, report |-> "none"]
    /\ last_call = [fn |-> "none", args |-> <<>>, err |-> "", return |-> <<>>]

Init == InitWith(MaxVoters, 1..MaxHalfRounds)

----------------------------------------------------------------------------
\* Casting.

\* Python's None where an int is expected: an integer that is no index.
PyNone == 0 - 1000000

\* ProofServer.handle_vote on the stored rows: the error raised ("" when
\* none) and the rows after the call.  The row indexes a Python list: an index
\* in [-len, -1] counts from the end, any other index outside [0, len) raises.
handle_vote(in_rows, sv_vote) ==
    LET row == sv_vote.proof_server_row
        n == Len(in_rows)
        at == IF row >= 0 THEN row + 1 ELSE n + row + 1
    IN  IF row = PyNone
        THEN [err |-> "Cannot handle vote without valid proof_server_row", rows |-> in_rows]
        ELSE IF row >= n \/ row < 0 - n
        THEN [err |-> "IndexError", rows |-> in_rows]
        ELSE [err |-> "", rows |-> [in_rows EXCEPT ![at] = Append(@, sv_vote)]]

\* SBB.add_ballot_svr_commitment.
RECURSIVE pad_rows(_, _)
pad_rows(coms, row) == IF Len(coms) <= row THEN pad_rows(Append(coms, <<>>), row) ELSE coms

add_ballot_svr_commitment(coms, row, com_u, com_v) ==
    [pad_rows(coms, row) EXCEPT ![row + 1] = Append(@, [com_u |-> com_u, com_v |-> com_v])]

\* SBB.add_ballot_receipt.
add_ballot_receipt(receipts, bid, receipt_str) ==
    Append(receipts, [bid |-> bid, receipt |-> receipt_str])

\* util.get_hash: a symbolic digest of its input.
get_hash(x) == [sha256 |-> x]

\* The message a tablet builds for one row of a ballot (Tablet.send_vote):
\* the share's SVR, its commitments and its encryption.
row_vote(bid, row, share, t, o) ==
    LET plaintext_svr == get_SVR(share, M, t, o)
    IN  [bid |-> bid,
         tablet_id |-> "tablet1",
         proof_server_row |-> row,
         com_u |-> get_COM(plaintext_svr.k1, plaintext_svr.u),
         com_v |-> get_COM(plaintext_svr.k2, plaintext_svr.v),
         enc |-> encrypt("sk_tablet1", plaintext_svr)]

\* The messages of one ballot, one per row.
ballot_votes(bid, x, t) ==
    LET split_vote == get_SV_multiple(x, rows, M, t, 0)
    IN  [r \in 1..rows |-> row_vote(bid, r - 1, split_vote[r], t, (rows - 1) + (r - 1) * SVRDraws)]

RECURSIVE handle_votes(_, _, _)
handle_votes(in_rows, msgs, r) ==
    IF r > Len(msgs) THEN in_rows
    ELSE handle_votes(handle_vote(in_rows, msgs[r]).rows, msgs, r + 1)

RECURSIVE add_commitments(_, _, _)
add_commitments(coms, msgs, r) ==
    IF r > Len(msgs) THEN coms
    ELSE add_commitments(
            add_ballot_svr_commitment(coms, msgs[r].proof_server_row, msgs[r].com_u, msgs[r].com_v),
            msgs, r + 1)

\* A Python value that is a bytes object, and one that is an int: the two
\* never compare equal.
py_bytes(b) == [type |-> "bytes", value |-> b]
py_int(i) == [type |-> "int", value |-> i]

\* One ballot of value x delivered through the public endpoints: for each row
\* SBB.add_ballot_svr_commitment(row, com_u, com_v) and
\* ProofServer.handle_vote(vote), then SBB.add_ballot_receipt(bid, hash), with
\* the messages built as Tablet.send_vote builds them, and the pair
\* (bid, receipt_hash) that send_vote returns kept as Voter.do_vote keeps it.
\* The bid is 32 random bytes in the source; here the ballot's number,
\* distinct per ballot.
deliver_ballot(x) ==
    /\ pc = "voting"
    /\ Len(votes) < num_voters
    /\ LET bid == <<Len(votes) + 1>>
           msgs == ballot_votes(bid, x, rng)
           receipt == [bid |-> bytes_to_bigint(bid),
                       commitments |-> [r \in 1..rows |-> [u |-> msgs[r].com_u, v |-> msgs[r].com_v]]]
       IN  /\ incoming_vote_rows' = handle_votes(incoming_vote_rows, msgs, 1)
           /\ sbb_svr_commitments' = add_commitments(sbb_svr_commitments, msgs, 1)
           /\ sbb_ballot_receipts' =
                 add_ballot_receipt(sbb_ballot_receipts, receipt.bid, get_hash(receipt))
           /\ voter_receipts' =
                 Append(voter_receipts, [bid |-> py_bytes(bid), ballot_hash |-> get_hash(receipt)])
    /\ votes' = Append(votes, x)
    /\ rng' = Advance(rng, (rows - 1) + rows * SVRDraws)
    /\ UNCHANGED <<twoM, last_call, num_voters, num_votes, initial_sv, permutation_arrays,
                   commitment_arrays, unmixed_commitment_arrays,
                   sbb_consistency_proof, db, flushed, db_closed, voter_result,
                   handle_result, send_result, pc, challengeVars, resultVars>>

\* A posted commitment changed in transit: the digest of another message.
mutated(com) == [com EXCEPT !.msg = bigint_to_bytes(bytes_to_bigint(@) + 1)]

\* One stored vote's com_u or com_v is mutated between emission and mixing.
tamper_vote(r, j, side) ==
    /\ pc = "checked"
    /\ first_bad_row(incoming_vote_rows) = 0
    /\ j \in 1..Len(incoming_vote_rows[r])
    /\ incoming_vote_rows' =
          IF side = 0
          THEN [incoming_vote_rows EXCEPT ![r][j].com_u = mutated(@)]
          ELSE [incoming_vote_rows EXCEPT ![r][j].com_v = mutated(@)]
    /\ UNCHANGED <<rng, twoM, last_call, num_voters, num_votes, initial_sv, permutation_arrays,
                   commitment_arrays, unmixed_commitment_arrays, sbbVars, pc, votes, voterVars,
                   challengeVars, resultVars>>

\* The SBB file as its writer holds it: the lines written so far and how many
\* of them have left the buffer for the file (SBB._db).
sbb_file == [db |-> db, flushed |-> flushed]

\* file.write of one line, and of several in turn; file.flush.
write(f, line) == [f EXCEPT !.db = Append(@, line)]
write_all(f, lines) == [f EXCEPT !.db = @ \o lines]
flush(f) == [f EXCEPT !.flushed = Len(f.db)]

\* A terminator that writes no line.
post_end_section_silent(f) == flush(f)

\* SBB.post_end_section.
post_end_section(f) == flush(write(f, TextLine(END_SECTION)))

\* SBB.post_start_mixnet_output_list and SBB.post_one_mixnet_output_list.
post_start_mixnet_output_list(f) == write(f, TextLine(MIXNET_VOTE_COMMITMENT_LIST))
post_one_mixnet_output_list(f, com_t) == write(f, JsonLine(com_t))

\* SBB.post_start_tvalue_commitments and SBB.post_tvalue_commitments.
post_start_tvalue_commitments(f) == write(f, TextLine(T_VALUE_COMMITMENT_LIST))
post_tvalue_commitments_withheld(f, t_values) == f
post_tvalue_commitments(f, t_values) == post_end_section(write(f, JsonLine(t_values)))

\* SBB.post_start_consistency_proof, SBB.post_consistency_proof on the stored
\* dict, and SBB.consistency_proof_end.
post_start_consistency_proof(f) == write(f, TextLine(CONSISTENCY_PROOF))
post_consistency_proof(proof, list_idx, svrs) ==
    [k \in (DOMAIN proof) \cup {list_idx} |-> IF k = list_idx THEN svrs ELSE proof[k]]
consistency_proof_end(f, proof) == post_end_section(write(f, JsonLine(proof)))

\* SBB.post_start_election_outcome_proof and SBB.post_one_election_outcome_proof.
post_start_election_outcome_proof(f) == write(f, TextLine(ELECTION_OUTCOME))
post_one_election_outcome_proof(f, list_idx, svrs) ==
    write(f, JsonLine([list_idx |-> list_idx, svrs |-> svrs]))

\* The two sections SBB.post_ballots_and_commitments writes, and its flush.
ballot_sections(f, receipts, coms) ==
    LET listed == write_all(write(f, TextLine(BALLOT_RECEIPTS)),
                            [i \in 1..Len(receipts) |-> JsonLine(receipts[i])])
        ended == post_end_section(listed)
        committed == write(write(ended, TextLine(ORIGINAL_ORDER_COMMITMENTS)), JsonLine(coms))
    IN  flush(post_end_section(committed))

\* SBB.post_ballots_and_commitments, called by Election.run once every voter
\* has voted.
post_ballots_and_commitments ==
    /\ pc = "voting"
    /\ Len(votes) = num_voters
    /\ LET f == ballot_sections(sbb_file, sbb_ballot_receipts, sbb_svr_commitments)
       IN  db' = f.db /\ flushed' = f.flushed
    /\ pc' = "posted"
    /\ UNCHANGED <<rng, twoM, last_call, num_voters, psVars, sbb_ballot_receipts, sbb_svr_commitments,
                   sbb_consistency_proof, db_closed, votes, voterVars, challengeVars,
                   resultVars>>

----------------------------------------------------------------------------
\* ProofServer.mix_votes, the whole call.

\* _validate_stored_votes without its assertions: the length of one row is
\* stored whatever the other rows hold.
_validate_stored_votes_unchecked(in_rows) ==
    [err |-> "", num_votes |-> Len(in_rows[1])]

\* ProofServer._validate_stored_votes: the error raised ("" when none) and the
\* number of votes it stores.
_validate_stored_votes(in_rows) ==
    LET lens == {Len(in_rows[r]) : r \in 1..Len(in_rows)}
    IN  IF Len(in_rows) # rows \/ Cardinality(lens) # 1
        THEN [err |-> "AssertionError", num_votes |-> 0]
        ELSE [err |-> "", num_votes |-> CHOOSE k \in lens : TRUE]

\* The loop with only its first round posted.
post_mixnet_output_lists_first_round(f, rounds, k) ==
    post_one_mixnet_output_list(f, rounds[1].com_t)

\* The loop of mix_votes over the rounds, on the SBB side: one record a round.
RECURSIVE post_mixnet_output_lists(_, _, _)
post_mixnet_output_lists(f, rounds, k) ==
    IF k > Len(rounds) THEN f
    ELSE post_mixnet_output_lists(post_one_mixnet_output_list(f, rounds[k].com_t), rounds, k + 1)

mix_votes ==
    /\ pc = "checked"
    /\ LET valid == _validate_stored_votes(incoming_vote_rows)
           n == valid.num_votes
           bad == first_bad_row(incoming_vote_rows)
           off == first_miscounted_row(incoming_vote_rows, n)
           stop == IF bad = 0 \/ (off # 0 /\ off < bad) THEN off ELSE bad
           started == post_start_mixnet_output_list(sbb_file)
           rounds == all_rounds(incoming_vote_rows, n, twoM, rng)
           perms == permutation_arrays \o [k \in 1..twoM |-> rounds[k].permutation_arrays]
           coms == commitment_arrays \o [k \in 1..twoM |-> rounds[k].round_commitments]
           isv == record_initial_rounds(initial_sv, incoming_vote_rows, twoM)
           unmixed == _unmix_commitments(coms, perms)
           listed == post_end_section(post_mixnet_output_lists(started, rounds, 1))
           posted == post_tvalue_commitments(post_start_tvalue_commitments(listed),
                                             t_values_of(unmixed, isv))
       IN  IF valid.err # ""
           THEN \* _validate_stored_votes fails
                /\ mix_result' = valid.err
                /\ pc' = "mix_failed"
                /\ UNCHANGED <<rng, psVars, sbbVars>>
           ELSE IF stop # 0
           THEN \* the first round raises in its decryption loop, at row stop
                /\ mix_result' = IF bad = stop THEN "Commitment validation failed"
                                 ELSE "AssertionError"
                /\ pc' = "mix_failed"
                /\ num_votes' = n
                /\ initial_sv' = record_initial(initial_sv, incoming_vote_rows, 1, stop - 1)
                /\ db' = started.db
                /\ flushed' = started.flushed
                /\ UNCHANGED <<rng, incoming_vote_rows, permutation_arrays, commitment_arrays,
                               unmixed_commitment_arrays, sbb_ballot_receipts,
                               sbb_svr_commitments, sbb_consistency_proof, db_closed>>
           ELSE /\ mix_result' = "ok"
                /\ pc' = "mixed"
                /\ num_votes' = n
                /\ initial_sv' = isv
                /\ permutation_arrays' = perms
                /\ commitment_arrays' = coms
                /\ unmixed_commitment_arrays' = unmixed
                /\ db' = posted.db
                /\ flushed' = posted.flushed
                /\ rng' = Advance(rng, twoM * RoundDraws(n))
                /\ UNCHANGED <<incoming_vote_rows, sbb_ballot_receipts, sbb_svr_commitments,
                               sbb_consistency_proof, db_closed>>
    /\ UNCHANGED <<twoM, last_call, num_voters, votes, voterVars, challengeVars, consistency_result,
                   tally_result>>

----------------------------------------------------------------------------
\* sbb.py: the reader.

\* A Python dict as a function; d[k] = v.
dict_set(d, k, v) == [x \in (DOMAIN d) \cup {k} |-> IF x = k THEN v ELSE d[x]]

\* util.ComSV is constructed by the reader and util.py does not define it:
\* modelled, from its use, as the record of its two constructor arguments.
ComSV(com_u, com_v) == [com_u |-> com_u, com_v |-> com_v]

\* sv_vote.PlaintextSVR.
PlaintextSVR(k1, k2, u, v) == [k1 |-> k1, k2 |-> k2, u |-> u, v |-> v]

SBBContents ==
    [err |-> "",
     ballot_receipts |-> <<>>,
     vote_lists |-> <<>>,
     election_outcomes |-> <<>>,
     svr_commitments |-> <<>>,
     t_values |-> <<>>,
     consistency_proof |-> <<>>]

\* The body of a section's while loop in get_sbb_contents: what one record
\* line adds to the contents.
read_record(c, heading, json) ==
    IF heading = BALLOT_RECEIPTS
    THEN [c EXCEPT !.ballot_receipts = dict_set(@, json.bid, json.receipt)]
    ELSE IF heading = ORIGINAL_ORDER_COMMITMENTS
    THEN [c EXCEPT !.svr_commitments = json]
    ELSE IF heading = MIXNET_VOTE_COMMITMENT_LIST
    THEN [c EXCEPT !.vote_lists = Append(@,
            [j \in 1..Len(json) |-> [r \in 1..Len(json[j]) |->
                ComSV(json[j][r].com_u, json[j][r].com_v)]])]
    ELSE IF heading = CONSISTENCY_PROOF
    THEN [c EXCEPT !.consistency_proof =
            [k \in (DOMAIN @) \cup (DOMAIN json) |-> IF k \in DOMAIN json THEN json[k] ELSE @[k]]]
    ELSE IF heading = T_VALUE_COMMITMENT_LIST
    THEN [c EXCEPT !.t_values = json]
    ELSE \* ELECTION_OUTCOME
         [c EXCEPT !.election_outcomes = dict_set(@, json.list_idx,
            [j \in 1..Len(json.svrs) |-> [r \in 1..Len(json.svrs[j]) |->
                PlaintextSVR(bigint_to_bytes(json.svrs[j][r].k1),
                             bigint_to_bytes(json.svrs[j][r].k2),
                             bigint_to_bytes(json.svrs[j][r].u),
                             bigint_to_bytes(json.svrs[j][r].v))]])]

\* A reader whose sections are followed by no assertion.
section_asserts_none(c, heading, nv, two_m) == TRUE

\* The assertions that follow a section's loop.
section_asserts(c, heading, nv, two_m) ==
    IF heading = BALLOT_RECEIPTS
    THEN Cardinality(DOMAIN c.ballot_receipts) = nv
    ELSE IF heading = MIXNET_VOTE_COMMITMENT_LIST
    THEN /\ Len(c.vote_lists) = two_m
         /\ \A k \in 1..two_m : Len(c.vote_lists[k]) = nv
    ELSE IF heading = ELECTION_OUTCOME
    THEN /\ Cardinality(DOMAIN c.election_outcomes) = two_m \div 2
         /\ \A k \in DOMAIN c.election_outcomes : Len(c.election_outcomes[k]) = nv
    ELSE TRUE

Headings == {BALLOT_RECEIPTS, ORIGINAL_ORDER_COMMITMENTS, MIXNET_VOTE_COMMITMENT_LIST,
             CONSISTENCY_PROOF, T_VALUE_COMMITMENT_LIST, ELECTION_OUTCOME}

\* The inner while loop from line i (1-based) of a section: the contents and
\* the index of the end_section line reached.
RECURSIVE read_section(_, _, _, _)
read_section(lines, i, c, heading) ==
    IF i > Len(lines) THEN [c |-> [c EXCEPT !.err = "IndexError"], i |-> i]
    ELSE IF IsText(lines[i], END_SECTION) THEN [c |-> c, i |-> i]
    ELSE IF lines[i].kind = "text" THEN [c |-> [c EXCEPT !.err = "JSONDecodeError"], i |-> i]
    ELSE read_section(lines, i + 1, read_record(c, heading, lines[i].json), heading)

\* The outer while loop with lines[i] the next heading.
RECURSIVE read_lines(_, _, _, _, _)
read_lines(lines, i, c, nv, two_m) ==
    IF ~(i < Len(lines)) THEN c
    ELSE IF lines[i].kind = "text" /\ lines[i].text \in Headings
    THEN LET heading == lines[i].text
             sec == read_section(lines, i + 1, c, heading)
         IN  IF sec.c.err # "" THEN sec.c
             ELSE IF ~section_asserts(sec.c, heading, nv, two_m)
             THEN [sec.c EXCEPT !.err = "AssertionError"]
             ELSE read_lines(lines, sec.i, sec.c, nv, two_m)
    ELSE read_lines(lines, i + 1, c, nv, two_m)

\* SBB.get_sbb_contents on the lines a reader of the file sees.
get_sbb_contents(lines, nv, two_m) == read_lines(lines, 1, SBBContents, nv, two_m)

\* SBBContents.get_bid_receipt: a dict lookup by the bid handed in.  The
\* reader files every receipt under the int of its JSON record, and a bytes
\* object equals no int.
get_bid_receipt(c, bid) ==
    IF bid.type = "int" /\ bid.value \in DOMAIN c.ballot_receipts
    THEN [err |-> "", receipt |-> c.ballot_receipts[bid.value]]
    ELSE [err |-> "KeyError", receipt |-> get_hash(<<>>)]

\* Voter.verify for the voter holding receipt v.
verify(v, c) ==
    LET found == get_bid_receipt(c, v.bid)
    IN  IF found.err # "" THEN found.err
        ELSE IF found.receipt = v.ballot_hash THEN "True" ELSE "False"

\* Step 4 of Election.run from voter i on: how the loop over the voters ends.
RECURSIVE verify_all(_, _, _)
verify_all(receipts, c, i) ==
    IF i > Len(receipts) THEN "True"
    ELSE LET r == verify(receipts[i], c)
         IN  IF r = "False" THEN "Voter ballot failed validation"
             ELSE IF r # "True" THEN r
             ELSE verify_all(receipts, c, i + 1)

\* Step 4 of Election.run: the SBB is parsed and every voter looks up the
\* receipt of the bid send_vote returned.
verify_voters ==
    /\ pc = "posted"
    /\ LET c == get_sbb_contents(SubSeq(db, 1, flushed), num_voters, twoM)
       IN  voter_result' = IF c.err # "" THEN c.err ELSE verify_all(voter_receipts, c, 1)
    /\ pc' = "checked"
    /\ UNCHANGED <<rng, twoM, last_call, num_voters, psVars, sbbVars, voter_receipts, handle_result,
                   send_result,
                   votes, challengeVars, resultVars>>

\* Step 6 of Election.run: random.sample of m of the 2m rounds for the
\* consistency proof, the others for the outcome.
all_two_m == 0..(twoM - 1)

\* A sample of any size.
ChallengesOfAnySize == SUBSET all_two_m

Challenges == {S \in SUBSET all_two_m : Cardinality(S) = twoM \div 2}

draw_challenge(lists) ==
    /\ pc = "mixed"
    /\ proof_lists' = lists
    /\ outcome_lists' = all_two_m \ lists
    /\ pc' = "challenged"
    /\ UNCHANGED <<rng, twoM, last_call, num_voters, psVars, sbbVars, votes, voterVars, select_u_v,
                   resultVars>>

----------------------------------------------------------------------------
\* proof_server.py: the proofs.

\* One opened row of the consistency proof for vote vote_idx (1-based) of
\* round list_idx (0-based), as publish_vote_consistency_proof builds it.
proof_entry(list_idx, row, vote_idx, select) ==
    LET svr == unmixed_commitment_arrays[list_idx + 1][row][vote_idx]
        init == initial_sv[row][vote_idx]
        fin == commitment_arrays[list_idx + 1][row][vote_idx]
    IN  IF select[vote_idx] = 0
        THEN [u |-> bytes_to_bigint(svr.u), k |-> bytes_to_bigint(svr.k1),
              u_init |-> bytes_to_bigint(init.u), k_init |-> bytes_to_bigint(init.k1),
              u_fin |-> bytes_to_bigint(fin.u), k_fin |-> bytes_to_bigint(fin.k1)]
        ELSE [v |-> bytes_to_bigint(svr.v), k |-> bytes_to_bigint(svr.k2),
              v_init |-> bytes_to_bigint(init.v), k_init |-> bytes_to_bigint(init.k2),
              v_fin |-> bytes_to_bigint(fin.v), k_fin |-> bytes_to_bigint(fin.k2)]

\* The svrs list posted for one round: [vote][row].
consistency_svrs(list_idx, select) ==
    [vote_idx \in 1..num_votes |->
        [row \in 1..Len(unmixed_commitment_arrays[list_idx + 1]) |->
            proof_entry(list_idx, row, vote_idx, select)]]

\* The loop run over every round of the mix, whatever the lists asked for.
post_consistency_proofs_all(proof, lists, select) ==
    [list_idx \in all_two_m |-> consistency_svrs(list_idx, select)]

\* The loop of publish_vote_consistency_proof over the rounds, on the SBB
\* side: one stored entry a round.
RECURSIVE post_consistency_proofs(_, _, _)
post_consistency_proofs(proof, lists, select) ==
    IF lists = {} THEN proof
    ELSE LET list_idx == CHOOSE k \in lists : TRUE
         IN  post_consistency_proofs(
                 post_consistency_proof(proof, list_idx, consistency_svrs(list_idx, select)),
                 lists \ {list_idx}, select)

\* ProofServer.publish_vote_consistency_proof(proof_lists, select_u_v).
publish_vote_consistency_proof(lists, select) ==
    /\ pc = "challenged"
    /\ LET proof == post_consistency_proofs(sbb_consistency_proof, lists, select)
           f == consistency_proof_end(post_start_consistency_proof(sbb_file), proof)
       IN  /\ sbb_consistency_proof' = proof
           /\ db' = f.db
           /\ flushed' = f.flushed
    /\ select_u_v' = select
    /\ pc' = "proved"
    /\ UNCHANGED <<rng, twoM, last_call, num_voters, psVars, sbb_ballot_receipts, sbb_svr_commitments,
                   db_closed, votes, voterVars, proof_lists, outcome_lists, resultVars>>

\* The svrs list posted for one outcome round: [vote][row], fully opened.
outcome_svrs(list_idx) ==
    [vote_idx \in 1..num_votes |->
        [row \in 1..Len(commitment_arrays[list_idx + 1]) |->
            LET svr == commitment_arrays[list_idx + 1][row][vote_idx]
            IN  [u |-> bytes_to_bigint(svr.u), v |-> bytes_to_bigint(svr.v),
                 k1 |-> bytes_to_bigint(svr.k1), k2 |-> bytes_to_bigint(svr.k2)]]]

\* The indices of a set of rounds in ascending order.
RECURSIVE sorted(_)
sorted(S) ==
    IF S = {} THEN <<>>
    ELSE LET lo == CHOOSE x \in S : \A y \in S : x <= y
         IN  <<lo>> \o sorted(S \ {lo})

\* The loop posting no round.
post_election_outcome_proofs_none(f, list_indices, i) == f

\* The loop of publish_election_outcome over the rounds, on the SBB side: one
\* record a round.
RECURSIVE post_election_outcome_proofs(_, _, _)
post_election_outcome_proofs(f, list_indices, i) ==
    IF i > Len(list_indices) THEN f
    ELSE post_election_outcome_proofs(
             post_one_election_outcome_proof(f, list_indices[i], outcome_svrs(list_indices[i])),
             list_indices, i + 1)

\* ProofServer.publish_election_outcome(outcome_lists).
publish_election_outcome(lists) ==
    /\ pc \in {"challenged", "verified"}
    /\ LET started == post_start_election_outcome_proof(sbb_file)
           f == post_end_section(post_election_outcome_proofs(started, sorted(lists), 1))
       IN  db' = f.db /\ flushed' = f.flushed
    /\ pc' = "outcome"
    /\ UNCHANGED <<rng, twoM, last_call, num_voters, psVars, sbb_ballot_receipts, sbb_svr_commitments,
                   sbb_consistency_proof, db_closed, votes, voterVars, challengeVars,
                   resultVars>>

\* SBB.close: the file is closed, which writes out what the buffer holds.
close ==
    /\ pc = "outcome"
    /\ db_closed' = TRUE
    /\ flushed' = Len(db)
    /\ pc' = "closed"
    /\ UNCHANGED <<rng, twoM, last_call, num_voters, psVars, sbb_ballot_receipts, sbb_svr_commitments,
                   sbb_consistency_proof, db, votes, voterVars, challengeVars, resultVars>>

----------------------------------------------------------------------------
\* verifier.py

RECURSIVE pow(_, _, _)
pow(b, e, m) == IF e = 0 THEN 1 % m ELSE (b * pow(b, e - 1, m)) % m

RECURSIVE Product(_, _)
Product(f, S) ==
    IF S = {} THEN 1
    ELSE LET i == CHOOSE x \in S : TRUE IN f[i] * Product(f, S \ {i})

\* enumerate(values, start): an iterator object, not a list.
enumerate(values, start) == [kind |-> "enumerate", values |-> values, start |-> start]

\* A tuple (x, y) of a share list.
share(x, y) == [kind |-> "tuple", xy |-> <<x, y>>]

\* The shares added up instead of interpolated.
lagrange_plain_sum(x, y, t, i, m) == [err |-> "", secret |-> SumSeq(y) % m]

\* The secret _lagrange accumulates over i = 1..t from the x and y lists.
RECURSIVE lagrange_sum(_, _, _, _, _)
lagrange_sum(x, y, t, i, m) ==
    IF i > t THEN [err |-> "", secret |-> 0]
    ELSE LET others == (1..t) \ {i}
             numerator == Product([j \in others |-> (0 - x[j]) % m], others)
             denominator == Product([j \in others |-> (x[i] - x[j]) % m], others)
             denominator_inverse == pow(denominator, m - 2, m)
             rest == lagrange_sum(x, y, t, i + 1, m)
         IN  IF denominator = 0 \/ (denominator * denominator_inverse) % m # 1
             THEN [err |-> "AssertionError", secret |-> 0]
             ELSE IF rest.err # "" THEN rest
             ELSE [err |-> "", secret |-> (rest.secret + y[i] * numerator * denominator_inverse) % m]

\* Verifier._lagrange(share_list, n, t, M): the secret, or the error raised.
_lagrange(share_list, n, t, m) ==
    IF ~(1 <= t /\ t <= n) \/ ~(n <= m - 1) \/ ~(Len(share_list) >= t)
    THEN [err |-> "AssertionError", secret |-> 0]
    ELSE LET cut == SubSeq(share_list, 1, t)
         IN  IF \E i \in 1..t : cut[i].kind # "tuple"
             THEN [err |-> "TypeError", secret |-> 0]   \* xy[0] on an iterator
             ELSE lagrange_sum([i \in 1..t |-> cut[i].xy[1]], [i \in 1..t |-> cut[i].xy[2]], t, 1, m)

\* What verify_ballot_consistency reads for one opened row sv (row_idx and
\* vote_idx 1-based) of round list_idx: the opened values of the side sv
\* carries and the posted values they are checked against.
opened(c, list_idx, vote_idx, row_idx, sv) ==
    LET is_u == "u" \in DOMAIN sv
        tvals == c.t_values[list_idx + 1][row_idx][vote_idx]
        original == c.svr_commitments[row_idx][vote_idx]
        final == c.vote_lists[list_idx + 1][vote_idx][row_idx]
    IN  [val_init |-> IF is_u THEN sv.u_init ELSE sv.v_init,
         val_fin |-> IF is_u THEN sv.u_fin ELSE sv.v_fin,
         val_uv |-> IF is_u THEN sv.u ELSE sv.v,
         val_t |-> IF is_u THEN tvals.tu ELSE tvals.tv,
         original_commitment |-> IF is_u THEN original.com_u ELSE original.com_v,
         final_commitment |-> IF is_u THEN final.com_u ELSE final.com_v,
         key_init |-> sv.k_init,
         key_fin |-> sv.k_fin]

\* com_init = original_commitment.
init_opens(o) ==
    get_COM(bigint_to_bytes(o.key_init), bigint_to_bytes(o.val_init)) = o.original_commitment

\* The final commitment check reading the original commitment instead.
fin_opens_original(o) ==
    get_COM(bigint_to_bytes(o.key_fin), bigint_to_bytes(o.val_fin)) = o.original_commitment

\* com_fin = final_commitment.
fin_opens(o) ==
    get_COM(bigint_to_bytes(o.key_fin), bigint_to_bytes(o.val_fin)) = o.final_commitment

\* The t-value check with the arguments of t_val exchanged.
t_agrees_swapped(o) ==
    t_val(bigint_to_bytes(o.val_uv), bigint_to_bytes(o.val_init), M) = o.val_t

\* util.t_val(val_init, val_uv, M) = val_t.
t_agrees(o) ==
    t_val(bigint_to_bytes(o.val_init), bigint_to_bytes(o.val_uv), M) = o.val_t

\* The checks on one opened row: the exception raised, "" when none.
check_row(c, list_idx, vote_idx, row_idx, sv) ==
    LET o == opened(c, list_idx, vote_idx, row_idx, sv)
    IN  IF ~init_opens(o)
        THEN "Failed to open the initial vote commitment"
        ELSE IF ~fin_opens(o)
        THEN "Failed to open the final vote commitment"
        ELSE IF ~t_agrees(o)
        THEN "Failed to verify t value"
        ELSE ""

\* The rows of one vote in order: the first exception raised, "" when none.
RECURSIVE check_rows(_, _, _, _)
check_rows(c, list_idx, vote_idx, row_idx) ==
    LET proved_sv == c.consistency_proof[list_idx][vote_idx]
    IN  IF row_idx > Len(proved_sv) THEN ""
        ELSE LET e == check_row(c, list_idx, vote_idx, row_idx, proved_sv[row_idx])
             IN  IF e # "" THEN e ELSE check_rows(c, list_idx, vote_idx, row_idx + 1)

\* The Lagrange step for one vote: the two _lagrange calls as the verifier
\* makes them, and the relation, whose failure is passed over.
lagrange_step(c, list_idx, vote_idx) ==
    LET proved_sv == c.consistency_proof[list_idx][vote_idx]
        n == Len(proved_sv)
        tu_list == <<enumerate([r \in 1..n |-> c.t_values[list_idx + 1][r][vote_idx].tu], 1)>>
        tv_list == <<enumerate([r \in 1..n |-> c.t_values[list_idx + 1][r][vote_idx].tv], 1)>>
        tu0 == _lagrange(tu_list, n, n - 1, M)
        tv0 == _lagrange(tv_list, n, n - 1, M)
    IN  IF tu0.err # "" THEN tu0.err
        ELSE IF tv0.err # "" THEN tv0.err
        ELSE IF val(tu0.secret, tv0.secret, M) # 0 THEN ""   \* pass
        ELSE ""

\* One vote of one round: its rows, then the Lagrange step.
check_vote(c, list_idx, vote_idx) ==
    LET e == check_rows(c, list_idx, vote_idx, 1)
    IN  IF e # "" THEN e ELSE lagrange_step(c, list_idx, vote_idx)

RECURSIVE check_votes(_, _, _)
check_votes(c, list_idx, vote_idx) ==
    IF vote_idx > Len(c.consistency_proof[list_idx]) THEN ""
    ELSE LET e == check_vote(c, list_idx, vote_idx)
         IN  IF e # "" THEN e ELSE check_votes(c, list_idx, vote_idx + 1)

RECURSIVE check_rounds(_, _, _)
check_rounds(c, list_indices, i) ==
    IF i > Len(list_indices) THEN ""
    ELSE LET e == check_votes(c, list_indices[i], 1)
         IN  IF e # "" THEN e ELSE check_rounds(c, list_indices, i + 1)

\* Verifier.verify_ballot_consistency on the parsed contents: "True", or the
\* exception raised.
verify_contents(c) ==
    IF c.err # "" THEN c.err
    ELSE LET e == check_rounds(c, sorted(DOMAIN c.consistency_proof), 1)
         IN  IF e # "" THEN e ELSE "True"

verify_ballot_consistency ==
    /\ pc \in {"proved", "proof_tampered"}
    /\ consistency_result' =
          verify_contents(get_sbb_contents(SubSeq(db, 1, flushed), num_voters, twoM))
    /\ pc' = "verified"
    /\ UNCHANGED <<rng, twoM, last_call, num_voters, psVars, sbbVars, votes, voterVars, challengeVars,
                   mix_result, tally_result>>

\* The outcome check reading com_u only.
outcome_opens_u(og_com_sv, outcome_com_sv) ==
    get_COM(outcome_com_sv.k1, outcome_com_sv.u) = og_com_sv.com_u

\* Whether an opened outcome SVR reproduces a posted post-mix commitment.
outcome_opens(og_com_sv, outcome_com_sv) ==
    /\ get_COM(outcome_com_sv.k1, outcome_com_sv.u) = og_com_sv.com_u
    /\ get_COM(outcome_com_sv.k2, outcome_com_sv.v) = og_com_sv.com_v

\* zip(a, b): the positions both lists have.
zip_len(a, b) == IF Len(a) <= Len(b) THEN Len(a) ELSE Len(b)

\* The raw vote value with the u components only.
RECURSIVE raw_value_u(_, _)
raw_value_u(vote, r) ==
    IF r = 0 THEN 0
    ELSE val(raw_value_u(vote, r - 1), bytes_to_bigint(vote[r].u), M)

\* The raw vote value of one posted vote: its SVR components applied in turn.
RECURSIVE raw_value(_, _)
raw_value(vote, r) ==
    IF r = 0 THEN 0
    ELSE val(raw_value(vote, r - 1),
             val(bytes_to_bigint(vote[r].u), bytes_to_bigint(vote[r].v), M), M)

\* collections.Counter of a list of values in 0..M-1: the count of each.
Counter(values) ==
    [x \in 0..(M - 1) |-> Cardinality({j \in 1..Len(values) : values[j] = x})]

\* The loop body of tally_and_verify_election_outcome for round idx: the
\* exception raised ("" when none) and the round's tally.
tally_round(c, idx, nv) ==
    IF idx + 1 > Len(c.vote_lists) THEN [err |-> "IndexError", tally |-> Counter(<<>>)]
    ELSE IF idx \notin DOMAIN c.election_outcomes THEN [err |-> "KeyError", tally |-> Counter(<<>>)]
    ELSE LET original_vote_list == c.vote_lists[idx + 1]
             posted_outcome == c.election_outcomes[idx]
         IN  IF ~(Len(original_vote_list) = Len(posted_outcome) /\ Len(posted_outcome) = nv)
             THEN [err |-> "AssertionError", tally |-> Counter(<<>>)]
             ELSE IF \E j \in 1..nv :
                        \E r \in 1..zip_len(original_vote_list[j], posted_outcome[j]) :
                            ~outcome_opens(original_vote_list[j][r], posted_outcome[j][r])
             THEN [err |-> "Election outcome commitment openings do not match original commitments",
                   tally |-> Counter(<<>>)]
             ELSE [err |-> "",
                   tally |-> Counter([j \in 1..nv |->
                                        raw_value(posted_outcome[j], Len(posted_outcome[j]))])]

\* The tally comparison reading adjacent pairs from the second tally on.
all_equal_from_second(raw_vote_tallies) ==
    \A k \in 2..(Len(raw_vote_tallies) - 1) : raw_vote_tallies[k] = raw_vote_tallies[k + 1]

\* all(tally == raw_vote_tallies[0] for tally in raw_vote_tallies).
all_equal(raw_vote_tallies) ==
    \A k \in 1..Len(raw_vote_tallies) : raw_vote_tallies[k] = raw_vote_tallies[1]

RECURSIVE tally_rounds(_, _, _, _, _)
tally_rounds(c, list_indices, i, nv, raw_vote_tallies) ==
    IF i > Len(list_indices) THEN [err |-> "", raw_vote_tallies |-> raw_vote_tallies]
    ELSE LET t == tally_round(c, list_indices[i], nv)
         IN  IF t.err # "" THEN [err |-> t.err, raw_vote_tallies |-> raw_vote_tallies]
             ELSE tally_rounds(c, list_indices, i + 1, nv, Append(raw_vote_tallies, t.tally))

\* Verifier.tally_and_verify_election_outcome(outcome_lists) on the parsed
\* contents: the tally returned, or the exception raised.
tally_contents(c, lists, nv) ==
    IF c.err # "" THEN [status |-> c.err, tally |-> Counter(<<>>)]
    ELSE LET t == tally_rounds(c, sorted(lists), 1, nv, <<>>)
         IN  IF t.err # "" THEN [status |-> t.err, tally |-> Counter(<<>>)]
             ELSE IF t.raw_vote_tallies = <<>>
             THEN [status |-> "IndexError", tally |-> Counter(<<>>)]
             ELSE IF ~all_equal(t.raw_vote_tallies)
             THEN [status |-> "Election outcome failed verification, not all tallies are equal",
                   tally |-> Counter(<<>>)]
             ELSE [status |-> "ok", tally |-> t.raw_vote_tallies[1]]

\* The loop of Election._finish_election over sorted(final_tally.items()),
\* from choice on, with every pair moved to the list of winners.
RECURSIVE winners_all(_, _, _, _)
winners_all(final_tally, choice, winners, most_votes) ==
    IF choice > M - 1 THEN winners
    ELSE IF final_tally[choice] = 0
    THEN winners_all(final_tally, choice + 1, winners, most_votes)
    ELSE winners_all(final_tally, choice + 1, Append(winners, choice), most_votes)

\* The loop of Election._finish_election over sorted(final_tally.items()),
\* from choice on.  A Counter has an item for the values counted only: a
\* choice with no vote is no key of final_tally.
RECURSIVE winners_from(_, _, _, _)
winners_from(final_tally, choice, winners, most_votes) ==
    IF choice > M - 1 THEN winners
    ELSE IF final_tally[choice] = 0
    THEN winners_from(final_tally, choice + 1, winners, most_votes)
    ELSE IF final_tally[choice] > most_votes
    THEN winners_from(final_tally, choice + 1, <<choice>>, final_tally[choice])
    ELSE IF final_tally[choice] = most_votes
    THEN winners_from(final_tally, choice + 1, Append(winners, choice), most_votes)
    ELSE winners_from(final_tally, choice + 1, winners, most_votes)

\* Election._finish_election once the verifier has returned final: the
\* exception goes on to the caller, or the winners are found and reported.
_finish_election(final) ==
    IF final.status # "ok"
    THEN [status |-> final.status, tally |-> final.tally, winners |-> <<>>, report |-> "none"]
    ELSE LET winners == winners_from(final.tally, 0, <<>>, 0)
         IN  [status |-> "ok", tally |-> final.tally, winners |-> winners,
              report |-> IF Len(winners) = 1 THEN "Election winner is choice"
                         ELSE "Election is a tie between choices"]

\* Step 8 of Election.run: _finish_election, which calls
\* Verifier.tally_and_verify_election_outcome and reports its tally.
tally_and_verify_election_outcome ==
    /\ pc \in {"closed", "outcome_tampered"}
    /\ tally_result' = _finish_election(
          tally_contents(get_sbb_contents(SubSeq(db, 1, flushed), num_voters, twoM),
                         outcome_lists, num_voters))
    /\ pc' = "tallied"
    /\ UNCHANGED <<rng, twoM, last_call, num_voters, psVars, sbbVars, votes, voterVars, challengeVars,
                   mix_result, consistency_result>>

Next ==
    \/ \E x \in 0..(M - 1) : deliver_ballot(x)
    \/ post_ballots_and_commitments
    \/ verify_voters
    \/ \E r \in 1..rows, j \in 1..MaxVoters, side \in {0, 1} : tamper_vote(r, j, side)
    \/ mix_votes
    \/ \E lists \in Challenges : draw_challenge(lists)
    \/ \E select \in [1..num_votes -> {0, 1}] :
          publish_vote_consistency_proof(proof_lists, select)
    \/ verify_ballot_consistency
    \/ pc = "verified" /\ publish_election_outcome(outcome_lists)
    \/ close
    \/ tally_and_verify_election_outcome

Spec == Init /\ [][Next]_vars

----------------------------------------------------------------------------
\* Casting and mixing alone, for elections of up to MixMaxVoters voters and
\* one pair of rounds.

InitMix == InitWith(MixMaxVoters, {1})

NextMix ==
    \/ \E x \in 0..(M - 1) : deliver_ballot(x)
    \/ post_ballots_and_commitments
    \/ verify_voters
    \/ mix_votes

SpecMix == InitMix /\ [][NextMix]_vars

----------------------------------------------------------------------------
\* Tablet.send_vote as the tablet's source has it.

\* A call that passes args to a method declared with the positional
\* parameters params (none with a default): the error of the call, "" when
\* every parameter is bound.
bind_positional(params, args) == IF Len(args) = Len(params) THEN "" ELSE "TypeError"

\* The arguments send_vote passes to SBB.add_ballot_svr_commitment for the
\* message of one row.
commitment_args(vote) == <<vote.com_u, vote.com_v>>

\* Tablet.send_vote(x) for the next voter, up to the exception that ends it.
\* The call of add_ballot_svr_commitment for the first row comes before
\* anything is stored; were it bound, the commitment would be stored and the
\* receipt line after it would raise, util.bytes_to_bigint being handed the
\* int that get_COM returns.
send_vote(x) ==
    /\ pc = "voting"
    /\ Len(votes) < num_voters
    /\ LET msgs == ballot_votes(<<Len(votes) + 1>>, x, rng)
           args == commitment_args(msgs[1])
           err == bind_positional(<<"row", "com_u", "com_v">>, args)
       IN  /\ send_result' = "TypeError"
           /\ sbb_svr_commitments' =
                 IF err # "" THEN sbb_svr_commitments
                 ELSE add_ballot_svr_commitment(sbb_svr_commitments, args[1], args[2], args[3])
    /\ votes' = Append(votes, x)
    /\ rng' = Advance(rng, (rows - 1) + SVRDraws)
    /\ UNCHANGED <<twoM, last_call, num_voters, psVars, sbb_ballot_receipts, sbb_consistency_proof, db,
                   flushed, db_closed, voter_receipts, voter_result, handle_result, pc,
                   challengeVars, resultVars>>

InitTablet == InitWith(MaxVoters, {1})

NextTablet ==
    \/ \E x \in 0..(M - 1) : send_vote(x)
    \/ post_ballots_and_commitments
    \/ verify_voters

SpecTablet == InitTablet /\ [][NextTablet]_vars

----------------------------------------------------------------------------
\* ProofServer.handle_vote is a public endpoint: besides the tablets' ballots
\* one message with any row assignment reaches it while votes are taken.

\* The row assignments tried: None, and the ints around [0, rows).
RowInputs == {PyNone} \cup ((0 - (rows + 1))..(rows + 1))

\* One call of handle_vote with a message assigned to the given row.
send_message(row) ==
    /\ pc = "voting"
    /\ handle_result = "none"
    /\ row \in RowInputs
    /\ LET msg == [ballot_votes(<<0>>, 0, rng)[1] EXCEPT !.proof_server_row = row]
           res == handle_vote(incoming_vote_rows, msg)
       IN  /\ incoming_vote_rows' = res.rows
           /\ handle_result' = IF res.err = "" THEN "accepted" ELSE res.err
    /\ UNCHANGED <<rng, twoM, last_call, num_voters, num_votes, initial_sv, permutation_arrays,
                   commitment_arrays, unmixed_commitment_arrays, sbbVars, voter_receipts,
                   voter_result, send_result, pc, votes, challengeVars, resultVars>>

\* One call of handle_vote after mix_votes has returned: the method looks
\* at the row of the message and at nothing else.
late_message(row) ==
    /\ pc = "mixed"
    /\ handle_result = "none"
    /\ row \in RowInputs
    /\ LET msg == [ballot_votes(<<0>>, 0, rng)[1] EXCEPT !.proof_server_row = row]
           res == handle_vote(incoming_vote_rows, msg)
       IN  /\ incoming_vote_rows' = res.rows
           /\ handle_result' = IF res.err = "" THEN "accepted" ELSE res.err
    /\ UNCHANGED <<rng, twoM, last_call, num_voters, num_votes, initial_sv, permutation_arrays,
                   commitment_arrays, unmixed_commitment_arrays, sbbVars, voter_receipts,
                   voter_result, send_result, pc, votes, challengeVars, resultVars>>

InitLate == InitWith(MaxVoters, {1})

NextLate ==
    \/ \E x \in 0..(M - 1) : deliver_ballot(x)
    \/ post_ballots_and_commitments
    \/ verify_voters
    \/ mix_votes
    \/ \E row \in RowInputs : late_message(row)
    \/ \E lists \in Challenges : draw_challenge(lists)

SpecLate == InitLate /\ [][NextLate]_vars

InitRows == InitWith(MaxVoters, {1})

NextRows ==
    \/ \E x \in 0..(M - 1) : deliver_ballot(x)
    \/ \E row \in RowInputs : send_message(row)
    \/ post_ballots_and_commitments
    \/ verify_voters
    \/ mix_votes

SpecRows == InitRows /\ [][NextRows]_vars

----------------------------------------------------------------------------
\* The SBB alone: its writer methods called one at a time by a client, each
\* step one call that has returned.  A reader of the file sees the first
\* `flushed` lines.

\* A call is made while the file holds fewer than MaxLines lines.
MaxLines == 3

\* The effect of one writer call that leaves the file as f.
sbb_returns(f) ==
    /\ Len(db) < MaxLines
    /\ db' = f.db
    /\ flushed' = f.flushed
    /\ UNCHANGED <<rng, twoM, last_call, num_voters, psVars, sbb_ballot_receipts, sbb_svr_commitments,
                   sbb_consistency_proof, db_closed, pc, votes, voterVars, challengeVars,
                   resultVars>>

call_post_ballots_and_commitments ==
    /\ ~db_closed
    /\ sbb_returns(ballot_sections(sbb_file, sbb_ballot_receipts, sbb_svr_commitments))

call_post_start_mixnet_output_list ==
    /\ ~db_closed
    /\ sbb_returns(post_start_mixnet_output_list(sbb_file))

call_post_one_mixnet_output_list ==
    /\ ~db_closed
    /\ sbb_returns(post_one_mixnet_output_list(sbb_file, <<>>))

call_post_start_tvalue_commitments ==
    /\ ~db_closed
    /\ sbb_returns(post_start_tvalue_commitments(sbb_file))

call_post_tvalue_commitments ==
    /\ ~db_closed
    /\ sbb_returns(post_tvalue_commitments(sbb_file, [k \in 1..twoM |-> <<>>]))

call_post_start_consistency_proof ==
    /\ ~db_closed
    /\ sbb_returns(post_start_consistency_proof(sbb_file))

call_consistency_proof_end ==
    /\ ~db_closed
    /\ sbb_returns(consistency_proof_end(sbb_file, sbb_consistency_proof))

call_post_start_election_outcome_proof ==
    /\ ~db_closed
    /\ sbb_returns(post_start_election_outcome_proof(sbb_file))

call_post_one_election_outcome_proof(list_idx) ==
    /\ ~db_closed
    /\ sbb_returns(post_one_election_outcome_proof(sbb_file, list_idx, <<>>))

call_post_end_section ==
    /\ ~db_closed
    /\ sbb_returns(post_end_section(sbb_file))

call_close ==
    /\ ~db_closed
    /\ db_closed' = TRUE
    /\ flushed' = Len(db)
    /\ UNCHANGED <<rng, twoM, last_call, num_voters, psVars, sbb_ballot_receipts, sbb_svr_commitments,
                   sbb_consistency_proof, db, pc, votes, voterVars, challengeVars, resultVars>>

InitSBB == InitWith(1, {1}) /\ rng = [i \in 1..RandTapeLen |-> 0]

NextSBB ==
    \/ call_post_ballots_and_commitments
    \/ call_post_start_mixnet_output_list
    \/ call_post_one_mixnet_output_list
    \/ call_post_start_tvalue_commitments
    \/ call_post_tvalue_commitments
    \/ call_post_start_consistency_proof
    \/ call_consistency_proof_end
    \/ call_post_start_election_outcome_proof
    \/ \E list_idx \in 0..1 : call_post_one_election_outcome_proof(list_idx)
    \/ call_post_end_section
    \/ call_close

SpecSBB == InitSBB /\ [][NextSBB]_vars

----------------------------------------------------------------------------
\* The transcript is a file the verifier reads back: a writer other than the
\* honest proof server can change what it holds before the verifier runs.

\* The line (1-based) of the first heading s of the transcript.
HeadingAt(lines, s) ==
    CHOOSE i \in 1..Len(lines) :
        /\ IsText(lines[i], s)
        /\ \A q \in 1..(i - 1) : ~IsText(lines[q], s)

\* One opened value of one posted proof entry is changed: the current value
\* ("cur"), the initial value ("init") or the final value ("fin").
changed_entry(sv, field) ==
    IF "u" \in DOMAIN sv
    THEN IF field = "cur" THEN [sv EXCEPT !.u = @ + 1]
         ELSE IF field = "init" THEN [sv EXCEPT !.u_init = @ + 1]
         ELSE [sv EXCEPT !.u_fin = @ + 1]
    ELSE IF field = "cur" THEN [sv EXCEPT !.v = @ + 1]
         ELSE IF field = "init" THEN [sv EXCEPT !.v_init = @ + 1]
         ELSE [sv EXCEPT !.v_fin = @ + 1]

tamper_proof_entry(list_idx, vote_idx, row_idx, field) ==
    /\ pc = "proved"
    /\ list_idx \in proof_lists
    /\ vote_idx \in 1..num_votes
    /\ LET i == HeadingAt(db, CONSISTENCY_PROOF) + 1
       IN  db' = [db EXCEPT ![i].json[list_idx][vote_idx][row_idx] = changed_entry(@, field)]
    /\ pc' = "proof_tampered"
    /\ UNCHANGED <<rng, twoM, last_call, num_voters, psVars, sbb_ballot_receipts, sbb_svr_commitments,
                   sbb_consistency_proof, flushed, db_closed, votes, voterVars, challengeVars, resultVars>>

\* One posted t-value of a proof round is changed: tu (side 0) or tv (side 1).
tamper_t_value(list_idx, row_idx, vote_idx, side) ==
    /\ pc = "proved"
    /\ list_idx \in proof_lists
    /\ vote_idx \in 1..num_votes
    /\ LET i == HeadingAt(db, T_VALUE_COMMITMENT_LIST) + 1
       IN  db' = IF side = 0
                 THEN [db EXCEPT ![i].json[list_idx + 1][row_idx][vote_idx].tu = (@ + 1) % M]
                 ELSE [db EXCEPT ![i].json[list_idx + 1][row_idx][vote_idx].tv = (@ + 1) % M]
    /\ pc' = "proof_tampered"
    /\ UNCHANGED <<rng, twoM, last_call, num_voters, psVars, sbb_ballot_receipts, sbb_svr_commitments,
                   sbb_consistency_proof, flushed, db_closed, votes, voterVars, challengeVars, resultVars>>

InitVerify == InitWith(MaxVoters, {1})

NextVerify ==
    \/ \E x \in 0..(M - 1) : deliver_ballot(x)
    \/ post_ballots_and_commitments
    \/ verify_voters
    \/ mix_votes
    \/ \E lists \in Challenges : draw_challenge(lists)
    \/ \E select \in [1..num_votes -> {0, 1}] :
          publish_vote_consistency_proof(proof_lists, select)
    \/ \E k \in 0..(2 * MaxHalfRounds - 1), j \in 1..MaxVoters, r \in 1..rows,
          field \in {"cur", "init", "fin"} : tamper_proof_entry(k, j, r, field)
    \/ \E k \in 0..(2 * MaxHalfRounds - 1), r \in 1..rows, j \in 1..MaxVoters,
          side \in {0, 1} : tamper_t_value(k, r, j, side)
    \/ verify_ballot_consistency

SpecVerify == InitVerify /\ [][NextVerify]_vars

\* A proof posted by a dishonest proof server: the opened unmixed value of
\* the entry at (list_idx, vote_idx, row_idx) is another value, and the
\* posted t-value of the opened side at that position is the one that
\* matches it.
forge_current_value(list_idx, vote_idx, row_idx) ==
    /\ pc = "proved"
    /\ list_idx \in proof_lists
    /\ vote_idx \in 1..num_votes
    /\ LET i == HeadingAt(db, CONSISTENCY_PROOF) + 1
           t == HeadingAt(db, T_VALUE_COMMITMENT_LIST) + 1
           is_u == "u" \in DOMAIN db[i].json[list_idx][vote_idx][row_idx]
       IN  db' = [db EXCEPT
                    ![i].json[list_idx][vote_idx][row_idx] = changed_entry(@, "cur"),
                    ![t].json[list_idx + 1][row_idx][vote_idx] =
                        IF is_u THEN [@ EXCEPT !.tu = (@ + 1) % M]
                        ELSE [@ EXCEPT !.tv = (@ + 1) % M]]
    /\ pc' = "proof_tampered"
    /\ UNCHANGED <<rng, twoM, last_call, num_voters, psVars, sbb_ballot_receipts, sbb_svr_commitments,
                   sbb_consistency_proof, flushed, db_closed, votes, voterVars, challengeVars, resultVars>>

InitForge == InitWith(MaxVoters, {1})

NextForge ==
    \/ \E x \in 0..(M - 1) : deliver_ballot(x)
    \/ post_ballots_and_commitments
    \/ verify_voters
    \/ mix_votes
    \/ \E lists \in Challenges : draw_challenge(lists)
    \/ \E select \in [1..num_votes -> {0, 1}] :
          publish_vote_consistency_proof(proof_lists, select)
    \/ \E k \in 0..(2 * MaxHalfRounds - 1), j \in 1..MaxVoters, r \in 1..rows :
          forge_current_value(k, j, r)
    \/ verify_ballot_consistency

SpecForge == InitForge /\ [][NextForge]_vars

\* One opened value of the i-th posted outcome record is changed: u (side 0)
\* or v (side 1) of the SVR at (vote_idx, row_idx).
tamper_outcome(i, vote_idx, row_idx, side) ==
    /\ pc = "outcome"
    /\ i \in 1..Cardinality(outcome_lists)
    /\ vote_idx \in 1..num_votes
    /\ LET at == HeadingAt(db, ELECTION_OUTCOME) + i
       IN  db' = IF side = 0
                 THEN [db EXCEPT ![at].json.svrs[vote_idx][row_idx].u = @ + 1]
                 ELSE [db EXCEPT ![at].json.svrs[vote_idx][row_idx].v = @ + 1]
    /\ pc' = "outcome_tampered"
    /\ UNCHANGED <<rng, twoM, last_call, num_voters, psVars, sbb_ballot_receipts, sbb_svr_commitments,
                   sbb_consistency_proof, flushed, db_closed, votes, voterVars, challengeVars, resultVars>>

\* A round posted by a dishonest writer: the u of the SVR at (vote_idx,
\* row_idx) of the i-th outcome record is another value of Z_M, and the
\* round's posted commitment com_u at that position commits to it.
forge_outcome(i, vote_idx, row_idx) ==
    /\ pc = "outcome"
    /\ i \in 1..Cardinality(outcome_lists)
    /\ vote_idx \in 1..num_votes
    /\ LET at == HeadingAt(db, ELECTION_OUTCOME) + i
           rec == db[at].json
           svr == rec.svrs[vote_idx][row_idx]
           u == (svr.u + 1) % M
           mixed_at == HeadingAt(db, MIXNET_VOTE_COMMITMENT_LIST) + 1 + rec.list_idx
       IN  db' = [db EXCEPT
                    ![at].json.svrs[vote_idx][row_idx].u = u,
                    ![mixed_at].json[vote_idx][row_idx].com_u =
                        get_COM(bigint_to_bytes(svr.k1), bigint_to_bytes(u))]
    /\ pc' = "outcome_tampered"
    /\ UNCHANGED <<rng, twoM, last_call, num_voters, psVars, sbb_ballot_receipts, sbb_svr_commitments,
                   sbb_consistency_proof, flushed, db_closed, votes, voterVars, challengeVars, resultVars>>

InitTally == InitWith(MaxVoters, {MaxHalfRounds})

NextTally ==
    \/ \E x \in 0..(M - 1) : deliver_ballot(x)
    \/ post_ballots_and_commitments
    \/ verify_voters
    \/ mix_votes
    \/ \E lists \in Challenges : draw_challenge(lists)
    \/ publish_election_outcome(outcome_lists)
    \/ close
    \/ \E i \in 1..MaxHalfRounds, j \in 1..MaxVoters, r \in 1..rows, side \in {0, 1} :
          tamper_outcome(i, j, r, side)
    \/ \E i \in 1..MaxHalfRounds, j \in 1..MaxVoters, r \in 1..rows :
          forge_outcome(i, j, r)
    \/ tally_and_verify_election_outcome

SpecTally == InitTally /\ [][NextTally]_vars

----------------------------------------------------------------------------
\* Election.run without the consistency proof, for elections of up to
\* MixMaxVoters voters and one pair of rounds: the tallies _finish_election
\* reports.

InitFinish == InitWith(MixMaxVoters, {1})

NextFinish ==
    \/ \E x \in 0..(M - 1) : deliver_ballot(x)
    \/ post_ballots_and_commitments
    \/ verify_voters
    \/ mix_votes
    \/ \E lists \in Challenges : draw_challenge(lists)
    \/ publish_election_outcome(outcome_lists)
    \/ close
    \/ tally_and_verify_election_outcome

SpecFinish == InitFinish /\ [][NextFinish]_vars

----------------------------------------------------------------------------
\* get_sbb_contents reads whatever sbb.txt holds: the transcript of an honest
\* run at any of its steps, or one whose records were removed, repeated or
\* shortened before the reader opens the file.

\* The heading of the section that holds line i.
heading_of(lines, i) ==
    LET before == {h \in 1..(i - 1) : lines[h].kind = "text" /\ lines[h].text \in Headings}
    IN  lines[CHOOSE h \in before : \A q \in before : q <= h].text

\* The pc values at which Election.run has returned from a writer of a whole
\* section.
ReadPoints == {"posted", "checked", "mixed", "proved", "outcome"}

\* The record on line i is taken out of the file.
remove_record(i) ==
    /\ pc \in ReadPoints
    /\ i \in 1..Len(db)
    /\ db[i].kind = "json"
    /\ db' = SubSeq(db, 1, i - 1) \o SubSeq(db, i + 1, Len(db))
    /\ flushed' = Len(db')
    /\ pc' = "records_removed"
    /\ UNCHANGED <<rng, twoM, last_call, num_voters, psVars, sbb_ballot_receipts, sbb_svr_commitments,
                   sbb_consistency_proof, db_closed, votes, voterVars, challengeVars, resultVars>>

\* The record on line i is written a second time, right after itself.
repeat_record(i) ==
    /\ pc \in ReadPoints
    /\ i \in 1..Len(db)
    /\ db[i].kind = "json"
    /\ db' = SubSeq(db, 1, i) \o SubSeq(db, i, Len(db))
    /\ flushed' = Len(db')
    /\ pc' = "records_repeated"
    /\ UNCHANGED <<rng, twoM, last_call, num_voters, psVars, sbb_ballot_receipts, sbb_svr_commitments,
                   sbb_consistency_proof, db_closed, votes, voterVars, challengeVars, resultVars>>

\* The list of votes of the mix-round or outcome record on line i loses its
\* last vote.
drop_vote(i) ==
    /\ pc \in ReadPoints
    /\ i \in 1..Len(db)
    /\ db[i].kind = "json"
    /\ heading_of(db, i) \in {MIXNET_VOTE_COMMITMENT_LIST, ELECTION_OUTCOME}
    /\ db' = IF heading_of(db, i) = MIXNET_VOTE_COMMITMENT_LIST
             THEN [db EXCEPT ![i].json = SubSeq(@, 1, Len(@) - 1)]
             ELSE [db EXCEPT ![i].json.svrs = SubSeq(@, 1, Len(@) - 1)]
    /\ flushed' = Len(db')
    /\ pc' = "votes_dropped"
    /\ UNCHANGED <<rng, twoM, last_call, num_voters, psVars, sbb_ballot_receipts, sbb_svr_commitments,
                   sbb_consistency_proof, db_closed, votes, voterVars, challengeVars, resultVars>>

InitRead == InitWith(MaxVoters, {1})

NextRead ==
    \/ \E x \in 0..(M - 1) : deliver_ballot(x)
    \/ post_ballots_and_commitments
    \/ verify_voters
    \/ mix_votes
    \/ \E lists \in Challenges : draw_challenge(lists)
    \/ \E select \in [1..num_votes -> {0, 1}] :
          publish_vote_consistency_proof(proof_lists, select)
    \/ verify_ballot_consistency
    \/ pc = "verified" /\ publish_election_outcome(outcome_lists)
    \/ \E i \in 1..Len(db) : remove_record(i)
    \/ \E i \in 1..Len(db) : repeat_record(i)
    \/ \E i \in 1..Len(db) : drop_vote(i)

SpecRead == InitRead /\ [][NextRead]_vars

----------------------------------------------------------------------------
\* A routine called on its own, once, on arguments of any value within the
\* bounds and with any random stream.

MaxParts == 4         \* n of get_SV_multiple ranges over 1..MaxParts
Moduli == {2, 3, 5}   \* the moduli the routines are called with

\* The two assertions that end get_SV_multiple, on the list it built.
get_SV_multiple_asserts(split, x, n, m) ==
    IF Len(split) = n /\ SumSeq(split) % m = x THEN "" ELSE "AssertionError"

\* A call get_SV_multiple(x, n, m): n - 1 draws of the stream.
call_get_SV_multiple(x, n, m) ==
    /\ pc = "voting"
    /\ LET split == get_SV_multiple(x, n, m, rng, 0)
       IN  last_call' = [fn |-> "get_SV_multiple", args |-> <<x, n, m>>,
                         err |-> get_SV_multiple_asserts(split, x, n, m), return |-> split]
    /\ rng' = Advance(rng, n - 1)
    /\ pc' = "returned"
    /\ UNCHANGED <<twoM, num_voters, psVars, sbbVars, votes, voterVars, challengeVars,
                   resultVars>>

MaxBytes == 3         \* a bytes argument holds 0..MaxBytes bytes
ByteValues == {0, 1, 255}
ByteStrings == UNION {[1..len -> ByteValues] : len \in 0..MaxBytes}
MaxSmallInt == 300    \* an int argument is one of 0..MaxSmallInt or of the larger ones listed
BigInts == (0..MaxSmallInt) \cup {65535, 65536, 65537, 16777215}

\* A call bigint_to_bytes(bytes_to_bigint(b)).
call_bytes_round_trip(b) ==
    /\ pc = "voting"
    /\ last_call' = [fn |-> "bigint_to_bytes(bytes_to_bigint)", args |-> <<b>>, err |-> "",
                     return |-> bigint_to_bytes(bytes_to_bigint(b))]
    /\ pc' = "returned"
    /\ UNCHANGED <<rng, twoM, num_voters, psVars, sbbVars, votes, voterVars, challengeVars,
                   resultVars>>

\* A call bytes_to_bigint(bigint_to_bytes(k)).
call_bigint_round_trip(k) ==
    /\ pc = "voting"
    /\ last_call' = [fn |-> "bytes_to_bigint(bigint_to_bytes)", args |-> <<k>>, err |-> "",
                     return |-> bytes_to_bigint(bigint_to_bytes(k))]
    /\ pc' = "returned"
    /\ UNCHANGED <<rng, twoM, num_voters, psVars, sbbVars, votes, voterVars, challengeVars,
                   resultVars>>

MaxShares == 3        \* _lagrange is called with 1..MaxShares shares

\* A call _lagrange(share_list, n, t, m) on the shares (1, ys[1]), ...,
\* (n, ys[n]).
call__lagrange(ys, t, m) ==
    /\ pc = "voting"
    /\ LET n == Len(ys)
           l == _lagrange([r \in 1..n |-> share(r, ys[r])], n, t, m)
       IN  last_call' = [fn |-> "_lagrange", args |-> <<ys, n, t, m>>, err |-> l.err,
                         return |-> l.secret]
    /\ pc' = "returned"
    /\ UNCHANGED <<rng, twoM, num_voters, psVars, sbbVars, votes, voterVars, challengeVars,
                   resultVars>>

InitCalls == InitWith(1, {1})

NextCalls ==
    \/ \E m \in Moduli : \E x \in (0 - 1)..m, n \in 1..MaxParts : call_get_SV_multiple(x, n, m)
    \/ \E b \in ByteStrings : call_bytes_round_trip(b)
    \/ \E k \in BigInts : call_bigint_round_trip(k)
    \/ \E m \in Moduli, n \in 1..MaxShares :
          \E ys \in [1..n -> 0..(m - 1)], t \in 1..n : call__lagrange(ys, t, m)

SpecCalls == InitCalls /\ [][NextCalls]_vars

----------------------------------------------------------------------------
\* Properties.  Vote values live in Z_M: a sum of values is taken modulo M.

\* The value a column of SVRs splits: the sum over the rows, in Z_M.
column_value(grid, j) == SumSeq([r \in 1..rows |-> svr_val(grid[r][j])]) % M

\* The pre-mix position (1-based) of the vote a round leaves at final
\* position p: pi_0(pi_1(...pi_{rows-1}(p))) for the round's permutations.
RECURSIVE premix_position(_, _, _)
premix_position(perms, col, p) ==
    IF col < 1 THEN p ELSE premix_position(perms, col - 1, perms[col][p] + 1)

\* The same permutations composed in the opposite order.
RECURSIVE opposite_position(_, _, _)
opposite_position(perms, col, p) ==
    IF col > rows THEN p ELSE opposite_position(perms, col + 1, perms[col][p] + 1)

\* C1: after mix_votes, in every round the SVRs at final position p split
\* the value of the ballot that stood at position pi_0(pi_1(...pi_{rows-1}(p)))
\* before the mix, which is the value that ballot was cast with: obfuscation
\* and re-splitting never change a ballot's value mod M.
C1_MixPreservesBallotValue ==
    pc = "mixed" =>
        \A k \in 1..twoM, p \in 1..num_votes :
            LET j == premix_position(permutation_arrays[k], rows, p)
            IN  /\ column_value(commitment_arrays[k], p) = column_value(initial_sv, j)
                /\ column_value(commitment_arrays[k], p) = votes[j]

\* C1's case: three ballots mixed, and a round whose permutations move a
\* ballot to a position where the order of composition matters.
C1_Witness ==
    /\ pc = "mixed"
    /\ num_votes = MixMaxVoters
    /\ \E k \in 1..twoM, p \in 1..num_votes :
          LET j == premix_position(permutation_arrays[k], rows, p)
          IN  /\ j # p
              /\ votes[j] # votes[p]
              /\ votes[j] # votes[opposite_position(permutation_arrays[k], 1, p)]

\* C2: in an honest run the tally of every round of outcome_lists is the
\* multiset of the cast ballot values, so the tallies are all equal and the
\* verifier returns that multiset; when every voter casts c it is {c: n}.
C2_HonestTallyIsCastMultiset ==
    pc = "tallied" =>
        LET c == get_sbb_contents(SubSeq(db, 1, flushed), num_voters, twoM)
        IN  /\ tally_result.status = "ok"
            /\ tally_result.tally = Counter(votes)
            /\ \A k \in outcome_lists :
                  /\ tally_round(c, k, num_voters).err = ""
                  /\ tally_round(c, k, num_voters).tally = Counter(votes)
            /\ \A x \in 0..(M - 1) :
                  (\A j \in 1..num_voters : votes[j] = x)
                      => tally_result.tally = [y \in 0..(M - 1) |-> IF y = x THEN num_voters ELSE 0]

\* C2's case: two voters cast the same value, two outcome rounds are tallied.
C2_Witness ==
    /\ pc = "tallied"
    /\ twoM = 4
    /\ num_voters = 2
    /\ votes[1] = votes[2]
    /\ tally_result.status = "ok"
    /\ tally_result.tally[votes[1]] = 2

\* The final position (1-based) of the ballot cast j-th, in round k (1-based):
\* where _unmix_commitments takes the SVR of unmixed position j from.
final_position(k, j) ==
    unmix_round([r \in 1..rows |-> [p \in 1..num_votes |-> p]],
                permutation_arrays[k], rows)[1][j]

\* The side a posted proof entry opens.
entry_side(sv) == IF "u" \in DOMAIN sv THEN "u" ELSE "v"

\* The sides of the final-column SVR at (round list_idx, row r, position p)
\* that the posted proof opens: as the "fin" values of entry p, and as the
\* current values of the entry of the ballot that the mix left at p.
opened_sides(list_idx, r, p) ==
    LET proof == sbb_consistency_proof[list_idx]
    IN  {entry_side(proof[p][r])}
            \cup {entry_side(proof[j][r]) :
                    j \in {i \in 1..num_votes : final_position(list_idx + 1, i) = p}}

\* C3: after publish_vote_consistency_proof no final-column SVR of a proof
\* round has both its u side and its v side opened on the SBB.
C3_NoSVRFullyOpened ==
    select_u_v # <<>> =>
        \A k \in proof_lists, r \in 1..rows, p \in 1..num_votes :
            Cardinality(opened_sides(k, r, p)) <= 1

\* C4: unmixed_commitment_arrays[k][row][j] is the final-column SVR of the
\* ballot cast j-th (the one the mix left at the position whose pre-mix
\* position is j), so the unmixed column j splits the same value as the
\* initial column j.
C4_UnmixRestoresCastOrder ==
    pc = "mixed" =>
        \A k \in 1..twoM, j \in 1..num_votes :
            /\ \E p \in 1..num_votes : premix_position(permutation_arrays[k], rows, p) = j
            /\ \A p \in 1..num_votes : premix_position(permutation_arrays[k], rows, p) = j =>
                  \A r \in 1..rows :
                      unmixed_commitment_arrays[k][r][j] = commitment_arrays[k][r][p]
            /\ column_value(unmixed_commitment_arrays[k], j) = column_value(initial_sv, j)

\* C4's case: three ballots, and a round that leaves no ballot in place (a
\* cycle, whose inverse differs from it), so the unmixing moves every SVR.
C4_Witness ==
    /\ pc = "mixed"
    /\ num_votes = MixMaxVoters
    /\ \E k \in 1..twoM :
          /\ \A p \in 1..num_votes : premix_position(permutation_arrays[k], rows, p) # p
          /\ unmixed_commitment_arrays[k] # commitment_arrays[k]

\* The transcript as the verifier parses it.
contents == get_sbb_contents(SubSeq(db, 1, flushed), num_voters, twoM)

\* The entries (round, vote, row) of the parsed consistency proof, and what
\* the verifier reads for one of them.
proof_entries(c) ==
    {e \in (DOMAIN c.consistency_proof) \X (1..num_voters) \X (1..rows) :
        /\ e[2] \in 1..Len(c.consistency_proof[e[1]])
        /\ e[3] \in 1..Len(c.consistency_proof[e[1]][e[2]])}

entry_opened(c, e) == opened(c, e[1], e[2], e[3], c.consistency_proof[e[1]][e[2]][e[3]])

\* The three conditions of a proof entry, stated on what the verifier reads.
init_mismatch(o) ==
    get_COM(bigint_to_bytes(o.key_init), bigint_to_bytes(o.val_init)) # o.original_commitment
fin_mismatch(o) ==
    get_COM(bigint_to_bytes(o.key_fin), bigint_to_bytes(o.val_fin)) # o.final_commitment
t_mismatch(o) ==
    (bytes_to_bigint(bigint_to_bytes(o.val_uv)) - bytes_to_bigint(bigint_to_bytes(o.val_init))) % M
        # o.val_t

\* The entry the verifier examines first, and the entries of its vote that
\* it examines before row r.
first_round(c) == sorted(DOMAIN c.consistency_proof)[1]
rows_before_pass(c, r) ==
    \A q \in 1..(r - 1) :
        LET o == entry_opened(c, <<first_round(c), 1, q>>)
        IN  ~init_mismatch(o) /\ ~fin_mismatch(o) /\ ~t_mismatch(o)

\* The Lagrange interpolation at 0 of the row-indexed t-values of one side
\* for one (round, vote): nodes 1..rows, threshold rows.
t_at_zero(c, list_idx, vote_idx, side) ==
    _lagrange([r \in 1..rows |->
                  share(r, IF side = 0 THEN c.t_values[list_idx + 1][r][vote_idx].tu
                           ELSE c.t_values[list_idx + 1][r][vote_idx].tv)],
              rows, rows, M).secret

relation_fails(c, list_idx, vote_idx) ==
    val(t_at_zero(c, list_idx, vote_idx, 0), t_at_zero(c, list_idx, vote_idx, 1), M) # 0

\* C5: when every opened proof entry passes its commitment and t-value checks
\* and, for some proof round and vote, the interpolated values have
\* (tu(0) + tv(0)) mod M # 0, verify_ballot_consistency fails the Lagrange
\* verification: the check is enforced.
C5_LagrangeRelationEnforced ==
    pc = "verified" =>
        LET c == contents
        IN  ( /\ c.err = ""
              /\ \A e \in proof_entries(c) :
                    LET o == entry_opened(c, e)
                    IN  ~init_mismatch(o) /\ ~fin_mismatch(o) /\ ~t_mismatch(o)
              /\ \E k \in DOMAIN c.consistency_proof, j \in 1..num_voters :
                    relation_fails(c, k, j) )
            => consistency_result = "Failed lagrange verification of t values"

\* C6: when a stored vote's com_u or com_v differs from the commitment its
\* tablet emitted (the one posted on the SBB), mix_votes ends with the
\* commitment validation failure and completes no round: no permutation, no
\* commitment array and no round record is produced.
C6_TamperedVoteAbortsMix ==
    ( /\ mix_result # "none"
      /\ \E r \in 1..rows : \E j \in 1..Len(incoming_vote_rows[r]) :
            \/ incoming_vote_rows[r][j].com_u # sbb_svr_commitments[r][j].com_u
            \/ incoming_vote_rows[r][j].com_v # sbb_svr_commitments[r][j].com_v )
    => /\ mix_result = "Commitment validation failed"
       /\ pc = "mix_failed"
       /\ permutation_arrays = <<>>
       /\ commitment_arrays = <<>>
       /\ unmixed_commitment_arrays = <<>>
       /\ IsText(db[Len(db)], MIXNET_VOTE_COMMITMENT_LIST)

\* C6's case: mix_votes has run on rows in which a com_v was mutated.
C6_Witness ==
    /\ pc = "mix_failed"
    /\ mix_result = "Commitment validation failed"
    /\ \E r \in 1..rows : \E j \in 1..Len(incoming_vote_rows[r]) :
          /\ incoming_vote_rows[r][j].com_v # sbb_svr_commitments[r][j].com_v
          /\ incoming_vote_rows[r][j].com_u = sbb_svr_commitments[r][j].com_u

\* Whether some opened SVR of outcome round idx fails to reproduce the
\* commitment pair posted for that round and position.
outcome_mismatch(c, idx) ==
    \E j \in 1..num_voters, r \in 1..rows :
        LET o == c.election_outcomes[idx][j][r]
            posted == c.vote_lists[idx + 1][j][r]
        IN  \/ get_COM(o.k1, o.u) # posted.com_u
            \/ get_COM(o.k2, o.v) # posted.com_v

outcome_failure == "Election outcome commitment openings do not match original commitments"

\* C7: tally_and_verify_election_outcome raises the outcome-commitment
\* failure when, for some outcome round and position, the opened (k1, u) or
\* (k2, v) does not hash to the com_u or com_v posted for that round and
\* position, and raises it in no other case.
C7_OutcomeOpeningsChecked ==
    pc = "tallied" =>
        LET c == contents
        IN  c.err = "" =>
                ( (\E k \in outcome_lists : outcome_mismatch(c, k))
                    <=> tally_result.status = outcome_failure )

\* C7's case: a v of an outcome record was changed and the tally has run.
C7_Witness ==
    /\ pc = "tallied"
    /\ tally_result.status = outcome_failure
    /\ \E k \in outcome_lists, j \in 1..num_voters, r \in 1..rows :
          LET o == contents.election_outcomes[k][j][r]
              posted == contents.vote_lists[k + 1][j][r]
          IN  get_COM(o.k1, o.u) = posted.com_u /\ get_COM(o.k2, o.v) # posted.com_v

\* The multiset of vote values one outcome round opens to.
round_tally(c, idx) ==
    Counter([j \in 1..num_voters |->
                SumSeq([r \in 1..rows |->
                    (bytes_to_bigint(c.election_outcomes[idx][j][r].u)
                        + bytes_to_bigint(c.election_outcomes[idx][j][r].v)) % M]) % M])

tally_failure == "Election outcome failed verification, not all tallies are equal"

\* C8: when every outcome round opens its posted commitments,
\* tally_and_verify_election_outcome raises the tally failure exactly when
\* two rounds of outcome_lists open to different multisets of vote values.
C8_UnequalTalliesRejected ==
    pc = "tallied" =>
        LET c == contents
            tallies == [k \in outcome_lists |-> round_tally(c, k)]
        IN  (c.err = "" /\ \A k \in outcome_lists : ~outcome_mismatch(c, k))
                => ( (\E k1 \in outcome_lists, k2 \in outcome_lists : tallies[k1] # tallies[k2])
                      <=> tally_result.status = tally_failure )

\* C8's case: a round was posted with a changed vote and matching
\* commitment, and the tally has run.
C8_Witness ==
    /\ pc = "tallied"
    /\ tally_result.status = tally_failure
    /\ \A k \in outcome_lists : ~outcome_mismatch(contents, k)
    /\ \E k1 \in outcome_lists, k2 \in outcome_lists :
          round_tally(contents, k1) # round_tally(contents, k2)

init_failure == "Failed to open the initial vote commitment"
fin_failure == "Failed to open the final vote commitment"
t_failure == "Failed to verify t value"

\* C9: verify_ballot_consistency raises when some opened proof entry's
\* (k_init, val_init) does not hash to the posted original commitment or its
\* (k_fin, val_fin) does not hash to the posted final-column commitment.  The
\* exception is the initial (final) commitment failure when the mismatch is
\* the first failing check the verifier meets, and those two failures are
\* raised only on such a mismatch.
C9_CommitmentMismatchRaises ==
    pc = "verified" =>
        LET c == contents
        IN  c.err = "" =>
            /\ (\E e \in proof_entries(c) :
                    init_mismatch(entry_opened(c, e)) \/ fin_mismatch(entry_opened(c, e)))
                  => consistency_result # "True"
            /\ \A r \in 1..rows :
                  LET o == entry_opened(c, <<first_round(c), 1, r>>)
                  IN  rows_before_pass(c, r) =>
                        /\ init_mismatch(o) => consistency_result = init_failure
                        /\ (~init_mismatch(o) /\ fin_mismatch(o)) => consistency_result = fin_failure
            /\ consistency_result = init_failure
                  => \E e \in proof_entries(c) : init_mismatch(entry_opened(c, e))
            /\ consistency_result = fin_failure
                  => \E e \in proof_entries(c) : fin_mismatch(entry_opened(c, e))

\* C9's case: an opened final value was changed in the first vote's entry and
\* the verifier has raised the final commitment failure.
C9_Witness ==
    /\ pc = "verified"
    /\ consistency_result = fin_failure
    /\ \E r \in 1..rows :
          LET o == entry_opened(contents, <<first_round(contents), 1, r>>)
          IN  ~init_mismatch(o) /\ fin_mismatch(o)

\* C10: verify_ballot_consistency raises when some opened proof entry's
\* t_val(val_init, val_uv, M) differs from the posted t-value of the opened
\* side: the t-value failure when that is the first failing check the
\* verifier meets.  It does not raise the t-value failure when the two agree
\* on every entry.
C10_TValueMismatchRaises ==
    pc = "verified" =>
        LET c == contents
        IN  c.err = "" =>
            /\ (\E e \in proof_entries(c) : t_mismatch(entry_opened(c, e)))
                  => consistency_result # "True"
            /\ \A r \in 1..rows :
                  LET o == entry_opened(c, <<first_round(c), 1, r>>)
                  IN  (rows_before_pass(c, r) /\ ~init_mismatch(o) /\ ~fin_mismatch(o)
                          /\ t_mismatch(o))
                        => consistency_result = t_failure
            /\ consistency_result = t_failure
                  => \E e \in proof_entries(c) : t_mismatch(entry_opened(c, e))

\* C10's case: a posted t-value of the opened side was changed, the opened
\* commitments still match, and the verifier has raised the t-value failure.
C10_Witness ==
    /\ pc = "verified"
    /\ consistency_result = t_failure
    /\ \E r \in 1..rows :
          LET o == entry_opened(contents, <<first_round(contents), 1, r>>)
          IN  ~init_mismatch(o) /\ ~fin_mismatch(o) /\ t_mismatch(o)
                 /\ o.val_uv \in 0..(M - 1)

\* C11: a handle_vote call whose message has no proof_server_row, or one
\* outside [0, rows), ends in an error and leaves incoming_vote_rows as it was.
C11_InvalidRowRejected ==
    [][\A row \in RowInputs \ (0..(rows - 1)) :
          send_message(row) =>
              /\ handle_result' # "accepted"
              /\ incoming_vote_rows' = incoming_vote_rows]_vars

\* C12: when the rows of incoming_vote_rows hold different numbers of messages,
\* mix_votes ends in an AssertionError with nothing written to the SBB, no
\* round run (no permutation or commitment array, no initial SVR recorded, no
\* randomness drawn) and no vote count stored.
C12_UnequalRowsAbortMix ==
    [][(/\ mix_votes
        /\ \E r1, r2 \in 1..rows :
              Len(incoming_vote_rows[r1]) # Len(incoming_vote_rows[r2]))
       => /\ mix_result' = "AssertionError"
          /\ pc' = "mix_failed"
          /\ db' = db /\ flushed' = flushed
          /\ permutation_arrays' = <<>> /\ commitment_arrays' = <<>>
          /\ initial_sv' = <<>> /\ num_votes' = 0
          /\ rng' = rng]_vars

\* C12's case: a message beyond the ballots made one row longer than another,
\* and mix_votes was called.
C12_Witness ==
    /\ pc = "mix_failed"
    /\ handle_result = "accepted"
    /\ Len(votes) = 2
    /\ \E r1, r2 \in 1..rows : Len(incoming_vote_rows[r1]) > Len(incoming_vote_rows[r2])
    /\ mix_result = "AssertionError"

\* C13: once post_ballots_and_commitments has run, every voter's lookup of the
\* bid send_vote returned, in the parsed SBB contents, yields the receipt hash
\* send_vote returned, and the driver's verification of the voters ends True.
C13_VoterFindsReceipt ==
    pc # "voting" =>
        LET c == get_sbb_contents(SubSeq(db, 1, flushed), num_voters, twoM)
        IN  /\ \A i \in 1..Len(voter_receipts) : verify(voter_receipts[i], c) = "True"
            /\ voter_result \in {"none", "True"}

\* C14: once the challenge is drawn, proof_lists and outcome_lists hold m
\* rounds each, share no round, and together hold every round of [0, 2m).
C14_ChallengeSplitsRounds ==
    pc \in {"challenged", "proved", "proof_tampered", "verified", "outcome", "closed",
            "tallied"} =>
        /\ Cardinality(proof_lists) = twoM \div 2
        /\ Cardinality(outcome_lists) = twoM \div 2
        /\ proof_lists \cap outcome_lists = {}
        /\ proof_lists \cup outcome_lists = 0..(twoM - 1)

\* C14's case: a challenge over four rounds that interleaves the two halves.
C14_Witness ==
    /\ pc = "challenged"
    /\ twoM = 4
    /\ proof_lists = {0, 3}
    /\ outcome_lists = {1, 2}

\* The sections of a transcript in the order Election.run has them written.
section_order ==
    <<BALLOT_RECEIPTS, ORIGINAL_ORDER_COMMITMENTS, MIXNET_VOTE_COMMITMENT_LIST,
      T_VALUE_COMMITMENT_LIST, CONSISTENCY_PROOF, ELECTION_OUTCOME>>

is_heading(line) == line.kind = "text" /\ line.text \in Headings

\* The section headers of a transcript, in the order of their lines.
headings_of(lines) ==
    LET h == SelectSeq(lines, is_heading) IN [i \in 1..Len(h) |-> h[i].text]

\* The index of the first end_section line after line i, 0 when there is none.
end_after(lines, i) ==
    LET ends == {q \in (i + 1)..Len(lines) : IsText(lines[q], END_SECTION)}
    IN  IF ends = {} THEN 0 ELSE CHOOSE q \in ends : \A e \in ends : q <= e

\* Whether the section with header s is written and terminated in a transcript
\* with n record lines and nothing else between the header and its terminator.
section_complete(lines, s, n) ==
    \E i \in 1..Len(lines) :
        /\ IsText(lines[i], s)
        /\ end_after(lines, i) = i + n + 1
        /\ \A q \in (i + 1)..(i + n) : lines[q].kind = "json"

\* C15: the headers on the SBB are an initial part of the order ballot_receipts,
\* original_order_commitments, mixnet_vote_commitment_list,
\* tvalue_commitment_list, consistency_proof, election_outcome; a header is
\* only written right after the terminator of the section before it; a
\* mixnet section that is followed by another holds all 2m records; lines are
\* only ever appended; and after publish_election_outcome all six are there.
C15_SectionsInOrder ==
    /\ [](LET h == headings_of(db)
          IN  /\ Len(h) <= Len(section_order)
              /\ h = SubSeq(section_order, 1, Len(h))
              /\ \A i \in 2..Len(db) :
                    is_heading(db[i]) => IsText(db[i - 1], END_SECTION)
              /\ Len(h) > 3 => section_complete(db, MIXNET_VOTE_COMMITMENT_LIST, twoM)
              /\ pc \in {"outcome", "closed", "tallied"} =>
                    /\ h = section_order
                    /\ IsText(db[Len(db)], END_SECTION))
    /\ [][Len(db') >= Len(db) /\ SubSeq(db', 1, Len(db)) = db]_vars

\* C15's case: a run over four rounds that has written all six sections.
C15_Witness ==
    /\ pc = "outcome"
    /\ twoM = 4
    /\ num_voters = 2
    /\ headings_of(db) = section_order
    /\ section_complete(db, MIXNET_VOTE_COMMITMENT_LIST, 4)
    /\ section_complete(db, ELECTION_OUTCOME, 2)

\* The t-value record of a transcript: the line after the t-value header.
tvalue_record(lines) == lines[HeadingAt(lines, T_VALUE_COMMITMENT_LIST) + 1]

\* Whether the t-values of all two_m rounds are posted in a transcript: one
\* terminated t-value section whose record has an entry for every round.
tvalues_posted(lines, two_m) ==
    /\ Cardinality({i \in 1..Len(lines) : IsText(lines[i], T_VALUE_COMMITMENT_LIST)}) = 1
    /\ section_complete(lines, T_VALUE_COMMITMENT_LIST, 1)
    /\ Len(tvalue_record(lines).json) = two_m

\* C16: whenever a challenge exists the t-values of all 2m rounds are on the
\* flushed part of the SBB, the step that draws the challenge finds them
\* there, and no step taken once the challenge exists writes a t-value
\* section or changes the posted record.
C16_TValuesBeforeChallenge ==
    /\ [](proof_lists # {} => tvalues_posted(SubSeq(db, 1, flushed), twoM))
    /\ [][proof_lists' # proof_lists => tvalues_posted(SubSeq(db, 1, flushed), twoM)]_vars
    /\ [][proof_lists # {} =>
             /\ tvalues_posted(db', twoM)
             /\ tvalue_record(db') = tvalue_record(db)]_vars

\* C16's case: a challenge over four rounds was drawn and the proof server
\* has acted on it.
C16_Witness ==
    /\ pc = "proved"
    /\ twoM = 4
    /\ proof_lists = {1, 2}
    /\ tvalues_posted(db, 4)

\* C17: the SBB is closed only from a state whose transcript ends with the
\* terminated election_outcome section of m records, a closed SBB holds that
\* section, and no step taken on a closed SBB changes its lines.
C17_ClosedAfterOutcome ==
    /\ [](db_closed =>
            /\ section_complete(db, ELECTION_OUTCOME, twoM \div 2)
            /\ IsText(db[Len(db)], END_SECTION)
            /\ flushed = Len(db))
    /\ [][(db_closed' /\ ~db_closed) =>
             /\ section_complete(db, ELECTION_OUTCOME, twoM \div 2)
             /\ end_after(db, HeadingAt(db, ELECTION_OUTCOME)) = Len(db)]_vars
    /\ [][db_closed => (db' = db /\ db_closed')]_vars

\* C17's case: the SBB was closed after four rounds and the tally has been
\* taken from it since.
C17_Witness ==
    /\ db_closed
    /\ pc = "tallied"
    /\ twoM = 4
    /\ section_complete(db, ELECTION_OUTCOME, 2)

\* A transcript read line by line from line i with the section `open` ("" when
\* none is): the section open at its end, or "malformed" when a header comes
\* while a section is open, or a record or a terminator while none is, or a
\* line is neither header, record nor terminator.
RECURSIVE open_section_from(_, _, _)
open_section_from(lines, i, open) ==
    IF i > Len(lines) THEN open
    ELSE IF is_heading(lines[i])
    THEN IF open = "" THEN open_section_from(lines, i + 1, lines[i].text) ELSE "malformed"
    ELSE IF IsText(lines[i], END_SECTION)
    THEN IF open # "" THEN open_section_from(lines, i + 1, "") ELSE "malformed"
    ELSE IF lines[i].kind = "json"
    THEN IF open # "" THEN open_section_from(lines, i + 1, open) ELSE "malformed"
    ELSE "malformed"

open_section(lines) == open_section_from(lines, 1, "")

\* The number of records each section holds when it is terminated.
section_records(s) ==
    IF s = BALLOT_RECEIPTS THEN num_voters
    ELSE IF s = MIXNET_VOTE_COMMITMENT_LIST THEN twoM
    ELSE IF s = ELECTION_OUTCOME THEN twoM \div 2
    ELSE 1

\* C18: every state the transcript has been in (every initial part of its
\* lines) is a sequence of sections, each a header, records and one
\* terminator, with at most the last one still open: no header while a
\* section is open, no record or terminator outside a section.  Every
\* terminated section holds the records of that section, and once the SBB is
\* closed no section is open.
C18_OneSectionOpen ==
    /\ \A k \in 0..Len(db) : open_section(SubSeq(db, 1, k)) # "malformed"
    /\ \A i \in 1..Len(db) :
          (is_heading(db[i]) /\ end_after(db, i) # 0) =>
              section_complete(db, db[i].text, section_records(db[i].text))
    /\ db_closed => open_section(db) = ""

\* C18's case: a closed transcript of six sections over four rounds, which
\* was in a state with the election_outcome section open and one record in.
C18_Witness ==
    /\ db_closed
    /\ twoM = 4
    /\ headings_of(db) = section_order
    /\ open_section(SubSeq(db, 1, Len(db) - 2)) = ELECTION_OUTCOME

\* C19: every SBB writer call that has returned leaves all lines written so
\* far flushed, so a reader of the file sees them.
C19_EveryWriteFlushed ==
    [][db' # db => flushed' = Len(db')]_vars

\* Whether every stored vote still carries the commitments its tablet posted.
honest_votes ==
    \A r \in 1..rows : \A j \in 1..Len(incoming_vote_rows[r]) :
        /\ incoming_vote_rows[r][j].com_u = sbb_svr_commitments[r][j].com_u
        /\ incoming_vote_rows[r][j].com_v = sbb_svr_commitments[r][j].com_v

\* C20: in an election where no stored vote is changed, every step that has
\* run has succeeded: the voters' verification ended True, mix_votes ended
\* without an error, verify_ballot_consistency returned True and the tally
\* was verified.
C20_HonestRunCompletes ==
    honest_votes =>
        /\ voter_result \in {"none", "True"}
        /\ mix_result \in {"none", "ok"}
        /\ consistency_result \in {"none", "True"}
        /\ tally_result.status \in {"none", "ok"}

\* C21: once the tablets have emitted the votes and post_ballots_and_commitments
\* has run, the SBB reads back with, in every row r, one commitment pair per
\* emitted vote, the j-th equal to (com_u, com_v) of the message stored at
\* incoming_vote_rows[r][j].
C21_CommitmentsFollowStoredVotes ==
    pc # "voting" =>
        LET c == get_sbb_contents(SubSeq(db, 1, flushed), num_voters, twoM)
        IN  /\ c.err = ""
            /\ Len(c.svr_commitments) = rows
            /\ \A r \in 1..rows :
                  /\ Len(incoming_vote_rows[r]) = Len(votes)
                  /\ Len(c.svr_commitments[r]) = Len(votes)
                  /\ \A j \in 1..Len(votes) :
                        c.svr_commitments[r][j] =
                            [com_u |-> incoming_vote_rows[r][j].com_u,
                             com_v |-> incoming_vote_rows[r][j].com_v]

\* C22: once every section is written, the SBB reads back as the proof
\* server's state: vote_lists[round][j][row] is the commitment pair of
\* commitment_arrays[round][row][j], t_values is the array computed from the
\* unmixed and initial SVRs, and for every outcome round
\* election_outcomes[round][j][row] has the k1, k2, u, v of
\* commitment_arrays[round][row][j], byte for byte.
C22_ReadEqualsServerState ==
    pc \in {"outcome", "closed", "tallied"} =>
        LET c == get_sbb_contents(SubSeq(db, 1, flushed), num_voters, twoM)
        IN  /\ c.err = ""
            /\ \A k \in 1..twoM, j \in 1..num_votes, r \in 1..rows :
                  c.vote_lists[k][j][r] =
                      ComSV(get_COM(commitment_arrays[k][r][j].k1, commitment_arrays[k][r][j].u),
                            get_COM(commitment_arrays[k][r][j].k2, commitment_arrays[k][r][j].v))
            /\ c.t_values = t_values_of(unmixed_commitment_arrays, initial_sv)
            /\ DOMAIN c.election_outcomes = outcome_lists
            /\ \A k \in outcome_lists, j \in 1..num_votes, r \in 1..rows :
                  LET read == c.election_outcomes[k][j][r]
                      held == commitment_arrays[k + 1][r][j]
                  IN  /\ read.k1 = held.k1 /\ read.k2 = held.k2
                      /\ read.u = held.u /\ read.v = held.v

\* The lines of the records of the section with header s: those between the
\* header and the first terminator after it.
records_of(lines, s) ==
    {q \in 1..Len(lines) : \E i \in 1..(q - 1) :
        /\ IsText(lines[i], s)
        /\ lines[q].kind = "json"
        /\ \A e \in (i + 1)..q : ~IsText(lines[e], END_SECTION)}

\* Whether the reader enters the section with header s: the header stands
\* on a line other than the last.
section_entered(lines, s) == \E i \in 1..(Len(lines) - 1) : IsText(lines[i], s)

\* The last record of the outcome section filed under list_idx.
last_outcome(lines, list_idx) ==
    LET of_idx == {q \in records_of(lines, ELECTION_OUTCOME) : lines[q].json.list_idx = list_idx}
    IN  lines[CHOOSE q \in of_idx : \A e \in of_idx : e <= q].json

\* The structural faults C23 lists, counted on the record lines of the file.
miscounted_lines(lines, nv, two_m) ==
    \/ Cardinality(records_of(lines, BALLOT_RECEIPTS)) # nv
    \/ Cardinality(records_of(lines, MIXNET_VOTE_COMMITMENT_LIST)) # two_m
    \/ \E q \in records_of(lines, MIXNET_VOTE_COMMITMENT_LIST) : Len(lines[q].json) # nv
    \/ Cardinality(records_of(lines, ELECTION_OUTCOME)) # two_m \div 2
    \/ \E q \in records_of(lines, ELECTION_OUTCOME) : Len(lines[q].json.svrs) # nv

\* The same faults as the reader can see them: only in a section it enters,
\* with receipts counted by distinct bid and outcome records by distinct
\* list_idx, the last record of an index standing for the index.
miscounted_sections(lines, nv, two_m) ==
    \/ /\ section_entered(lines, BALLOT_RECEIPTS)
       /\ Cardinality({lines[q].json.bid : q \in records_of(lines, BALLOT_RECEIPTS)}) # nv
    \/ /\ section_entered(lines, MIXNET_VOTE_COMMITMENT_LIST)
       /\ \/ Cardinality(records_of(lines, MIXNET_VOTE_COMMITMENT_LIST)) # two_m
          \/ \E q \in records_of(lines, MIXNET_VOTE_COMMITMENT_LIST) : Len(lines[q].json) # nv
    \/ /\ section_entered(lines, ELECTION_OUTCOME)
       /\ LET idxs == {lines[q].json.list_idx : q \in records_of(lines, ELECTION_OUTCOME)}
          IN  \/ Cardinality(idxs) # two_m \div 2
              \/ \E k \in idxs : Len(last_outcome(lines, k).svrs) # nv

most_voted(tally) ==
    {x \in DOMAIN tally : tally[x] > 0 /\ \A y \in DOMAIN tally : tally[y] <= tally[x]}

\* C24: when the tally is verified, the winners the driver reports are
\* exactly the choices with the maximal count of the final tally, each
\* listed once: one winner when the maximum is unique, otherwise a tie
\* between all and only the tied choices.
C24_WinnersAreMostVoted ==
    (pc = "tallied" /\ tally_result.status = "ok") =>
        LET w == tally_result.winners
            best == most_voted(tally_result.tally)
        IN  /\ {w[i] : i \in 1..Len(w)} = best
            /\ Len(w) = Cardinality(best)
            /\ tally_result.report = IF Cardinality(best) = 1 THEN "Election winner is choice"
                                     ELSE "Election is a tie between choices"

\* A verified election whose single winner, not the smallest voted choice,
\* is reported ahead of another choice that got a vote.
C24_Witness ==
    /\ pc = "tallied"
    /\ tally_result.status = "ok"
    /\ tally_result.report = "Election winner is choice"
    /\ \E x \in 0..(M - 1) : x < tally_result.winners[1] /\ tally_result.tally[x] > 0

\* Whether pi is a list of n positions that holds every position of
\* 0..n-1 once.
is_permutation(pi, n) ==
    /\ Len(pi) = n
    /\ \A p \in 0..(n - 1) : Cardinality({i \in 1..n : pi[i] = p}) = 1

\* C25: once mix_votes has returned, permutation_arrays holds 2m rounds,
\* every round `rows` permutations, every one of them a bijection on the n
\* vote positions, and commitment_arrays holds 2m rounds of rows x n SVRs
\* with u and v in Z_M: in every round, not only the first.
C25_MixStateShape ==
    mix_result = "ok" =>
        /\ Len(permutation_arrays) = twoM
        /\ Len(commitment_arrays) = twoM
        /\ \A k \in 1..twoM :
              /\ Len(permutation_arrays[k]) = rows
              /\ \A col \in 1..rows : is_permutation(permutation_arrays[k][col], num_votes)
              /\ Len(commitment_arrays[k]) = rows
              /\ \A r \in 1..rows :
                    /\ Len(commitment_arrays[k][r]) = num_votes
                    /\ \A j \in 1..num_votes :
                          /\ bytes_to_bigint(commitment_arrays[k][r][j].u) \in 0..(M - 1)
                          /\ bytes_to_bigint(commitment_arrays[k][r][j].v) \in 0..(M - 1)

\* A mix of three votes whose second round permutes them differently in
\* its two columns, neither time leaving them in place.
C25_Witness ==
    /\ mix_result = "ok"
    /\ num_votes = 3
    /\ permutation_arrays[2][1] # permutation_arrays[2][2]
    /\ \A col \in 1..rows : permutation_arrays[2][col] # <<0, 1, 2>>

\* C26: whatever the random values, get_SV_multiple(x, n, M) with
\* 0 <= x < M and n >= 1 returns, without an error, exactly n integers of
\* 0..M-1 whose sum is x modulo M.
C26_SplitSumsToValue ==
    (last_call.fn = "get_SV_multiple" /\ last_call.args[1] \in 0..(last_call.args[3] - 1)) =>
        LET x == last_call.args[1]
            n == last_call.args[2]
            m == last_call.args[3]
            split == last_call.return
        IN  /\ last_call.err = ""
            /\ Len(split) = n
            /\ \A i \in 1..n : split[i] \in 0..(m - 1)
            /\ SumSeq(split) % m = x

\* A split of a value into four parts whose random parts sum to more than
\* the value, so that the last part is found by the reduction modulo M.
C26_Witness ==
    /\ last_call.fn = "get_SV_multiple"
    /\ last_call.args = <<1, 4, 3>>
    /\ last_call.err = ""
    /\ SumSeq(SubSeq(last_call.return, 1, 3)) > 1
    /\ last_call.return[4] # 0

\* Whether b is the minimal-length little-endian encoding of an integer:
\* at least one byte, and a last byte of zero only in the encoding of zero.
minimal_encoding(b) == Len(b) >= 1 /\ (b[Len(b)] # 0 \/ b = <<0>>)

\* C27: bigint_to_bytes(bytes_to_bigint(b)) = b for every minimal-length
\* little-endian byte string b, the byte 0x00 for zero included, and
\* bytes_to_bigint(bigint_to_bytes(k)) = k for every integer k >= 0.
C27_EncodingRoundTrips ==
    /\ (last_call.fn = "bigint_to_bytes(bytes_to_bigint)" /\ minimal_encoding(last_call.args[1]))
          => last_call.return = last_call.args[1]
    /\ last_call.fn = "bytes_to_bigint(bigint_to_bytes)"
          => last_call.return = last_call.args[1]

\* A three-byte encoding with a zero byte in the middle that came back
\* from the round trip.
C27_Witness ==
    /\ last_call.fn = "bigint_to_bytes(bytes_to_bigint)"
    /\ last_call.args[1] = <<255, 0, 1>>
    /\ last_call.return = <<255, 0, 1>>

\* The value at x, modulo m, of the polynomial with coefficients c[1]
\* (constant) to c[Len(c)].
poly_at(c, x, m) == SumSeq([k \in 1..Len(c) |-> c[k] * pow(x, k - 1, m)]) % m

\* The values at 0 of the polynomials of degree below Len(ys) that take
\* the value ys[r] at every node r.
interpolations(ys, m) ==
    {c[1] : c \in {d \in [1..Len(ys) -> 0..(m - 1)] :
                     \A r \in 1..Len(ys) : poly_at(d, r, m) = ys[r]}}

\* C28, as stated: for every prime M and every rows, the interpolation at 0
\* modulo M of the points (r, t_r), r = 1..rows, t_r in [0, M), is
\* (t_1 + ... + t_rows) mod M.
C28_LagrangeIsPlainSum ==
    (last_call.fn = "_lagrange" /\ last_call.args[3] = last_call.args[2]) =>
        /\ last_call.err = ""
        /\ last_call.return = SumSeq(last_call.args[1]) % last_call.args[4]

\* C28, as _lagrange computes it: for every prime M and 1 <= rows <= M - 1,
\* the interpolation at 0 of the points (r, t_r) is P(0) for the one
\* polynomial P of degree below rows through them; it is the plain sum of
\* the t_r for rows = 1, and 2 t_1 - t_2 for rows = 2.
C28_LagrangeIsValueAtZero ==
    (/\ last_call.fn = "_lagrange"
     /\ last_call.args[3] = last_call.args[2]
     /\ last_call.args[2] <= last_call.args[4] - 1) =>
        LET ys == last_call.args[1]
            m == last_call.args[4]
        IN  /\ last_call.err = ""
            /\ interpolations(ys, m) = {last_call.return}
            /\ Len(ys) = 1 => last_call.return = SumSeq(ys) % m
            /\ Len(ys) = 2 => last_call.return = (2 * ys[1] - ys[2]) % m

\* Three points modulo 5 that interpolate to another value at 0 than
\* they sum to.
C28_Witness ==
    /\ last_call.fn = "_lagrange"
    /\ last_call.args[2] = 3 /\ last_call.args[3] = 3 /\ last_call.args[4] = 5
    /\ last_call.err = ""
    /\ last_call.return # SumSeq(last_call.args[1]) % 5

\* The difference (final - initial) mod M of two encoded components.
component_difference(final, initial) == (bytes_to_bigint(final) - bytes_to_bigint(initial)) % M

\* C29, as stated: every posted t-value cancels the difference of the
\* unmixed final SVR and the initial SVR of the same ballot and row:
\* (tu + ((final.u - initial.u) mod M)) mod M = 0, and likewise for tv.
C29_TValueCancelsDifference ==
    mix_result = "ok" =>
        LET c == get_sbb_contents(SubSeq(db, 1, flushed), num_voters, twoM)
        IN  \A k \in 1..twoM, r \in 1..rows, j \in 1..num_votes :
                LET final == unmixed_commitment_arrays[k][r][j]
                    initial == initial_sv[r][j]
                IN  /\ (c.t_values[k][r][j].tu + component_difference(final.u, initial.u)) % M = 0
                    /\ (c.t_values[k][r][j].tv + component_difference(final.v, initial.v)) % M = 0

\* C29, with t_val(a, b, M) = (b - a) mod M: every posted t-value is the
\* difference of the unmixed final SVR and the initial SVR of the same
\* ballot and row: (tu - ((final.u - initial.u) mod M)) mod M = 0, and
\* likewise for tv, in every round, row and vote position.
C29_TValueIsDifference ==
    mix_result = "ok" =>
        LET c == get_sbb_contents(SubSeq(db, 1, flushed), num_voters, twoM)
        IN  /\ c.err = ""
            /\ Len(c.t_values) = twoM
            /\ \A k \in 1..twoM, r \in 1..rows, j \in 1..num_votes :
                  LET final == unmixed_commitment_arrays[k][r][j]
                      initial == initial_sv[r][j]
                  IN  /\ (c.t_values[k][r][j].tu - component_difference(final.u, initial.u)) % M = 0
                      /\ (c.t_values[k][r][j].tv - component_difference(final.v, initial.v)) % M = 0

\* A mix of several votes after which the two rounds post different
\* t-values for the same ballot and row, the first round's not zero.
C29_Witness ==
    /\ mix_result = "ok"
    /\ num_votes >= 2
    /\ LET t == get_sbb_contents(SubSeq(db, 1, flushed), num_voters, twoM).t_values
       IN  \E r \in 1..rows, j \in 1..num_votes :
               /\ t[1][r][j].tu # 0
               /\ t[1][r][j].tu # t[2][r][j].tu

\* The round indices of the consistency proofs on the transcript: the keys
\* of the records of the consistency_proof section.
proved_rounds(lines) ==
    UNION {DOMAIN lines[q].json : q \in records_of(lines, CONSISTENCY_PROOF)}

\* C30: once publish_vote_consistency_proof(proof_lists) and
\* publish_election_outcome(outcome_lists) have run, the rounds with a
\* consistency proof on the SBB are exactly proof_lists, m of them, the
\* rounds with an outcome record are exactly outcome_lists, one record
\* each and m in all, and no round is in both sections; the reader returns
\* the same two sets.
C30_ProofAndOutcomeRoundsDisjoint ==
    (pc \in {"outcome", "closed", "tallied"} /\ select_u_v # <<>>) =>
        LET lines == SubSeq(db, 1, flushed)
            outcomes == records_of(lines, ELECTION_OUTCOME)
            outcome_rounds == {lines[q].json.list_idx : q \in outcomes}
            c == get_sbb_contents(lines, num_voters, twoM)
        IN  /\ proved_rounds(lines) = proof_lists
            /\ Cardinality(proof_lists) = twoM \div 2
            /\ outcome_rounds = outcome_lists
            /\ Cardinality(outcomes) = twoM \div 2
            /\ Cardinality(outcome_rounds) = twoM \div 2
            /\ proved_rounds(lines) \cap outcome_rounds = {}
            /\ c.err = ""
            /\ DOMAIN c.consistency_proof = proof_lists
            /\ DOMAIN c.election_outcomes = outcome_lists

\* An election of four rounds with the proofs of rounds 0 and 3 and the
\* outcomes of rounds 1 and 2 on the SBB.
C30_Witness ==
    /\ pc = "outcome"
    /\ select_u_v # <<>>
    /\ proved_rounds(SubSeq(db, 1, flushed)) = {0, 3}
    /\ {db[q].json.list_idx : q \in records_of(db, ELECTION_OUTCOME)} = {1, 2}

\* C31: once all 2m rounds of a mix have run, initial_sv is the rows x n grid
\* of the decrypted SVRs of the stored votes, initial_sv[r][j] that of
\* incoming_vote_rows[r][j]: what the first round recorded, with nothing
\* added or changed by the rounds after it.
C31_InitialSVRecordedOnce ==
    mix_result = "ok" =>
        /\ Len(initial_sv) = rows
        /\ \A r \in 1..rows :
              /\ Len(initial_sv[r]) = num_votes
              /\ \A j \in 1..num_votes :
                    initial_sv[r][j] =
                        decode(incoming_vote_rows[r][j].enc,
                               tablet_decoders[incoming_vote_rows[r][j].tablet_id])

\* A mix of four rounds of two votes whose rows were split differently.
C31_Witness ==
    /\ mix_result = "ok"
    /\ twoM = 4
    /\ num_votes = 2
    /\ Len(initial_sv) = rows
    /\ initial_sv[1] # initial_sv[2]

\* C32: once mix_votes has run, the stored votes are fixed: no step, a
\* handle_vote call included, changes incoming_vote_rows, and after a mix
\* that returned every row holds num_votes votes in every later state.
C32_VotesFixedAfterMix ==
    /\ [](mix_result = "ok" => \A r \in 1..rows : Len(incoming_vote_rows[r]) = num_votes)
    /\ [][mix_result # "none" => incoming_vote_rows' = incoming_vote_rows]_vars

\* C33: in the verification of a consistency proof, for every proof round
\* and vote the Lagrange step over the `rows` shares (r, tu_r) and
\* (r, tv_r) returns without a failed precondition or any other error,
\* and so does verify_ballot_consistency.
C33_LagrangeCheckWellDefined ==
    consistency_result # "none" =>
        LET c == get_sbb_contents(SubSeq(db, 1, flushed), num_voters, twoM)
        IN  /\ \A list_idx \in proof_lists : \A vote_idx \in 1..num_votes :
                  lagrange_step(c, list_idx, vote_idx) = ""
            /\ consistency_result \notin {"TypeError", "AssertionError"}

\* C34: a call of mix_votes that ends in an error leaves nothing partial
\* behind: the lines written to the SBB are those written before the call,
\* with no header opened and no mix-round record added, and initial_sv,
\* permutation_arrays and commitment_arrays are what they were.
C34_FailedMixLeavesNoTrace ==
    [][(mix_result = "none" /\ mix_result' \notin {"none", "ok"}) =>
          /\ db' = db
          /\ initial_sv' = initial_sv
          /\ permutation_arrays' = permutation_arrays
          /\ commitment_arrays' = commitment_arrays]_vars

\* C35: in the t-values posted after a mix of votes that all open their
\* commitments, for every round and every cast position j the sum over the
\* rows of tu + tv of t_values[round][row][j] is 0 modulo M.
C35_TValuesCancelAcrossRows ==
    mix_result = "ok" =>
        LET c == get_sbb_contents(SubSeq(db, 1, flushed), num_voters, twoM)
        IN  /\ c.err = ""
            /\ \A k \in 1..twoM, j \in 1..num_votes :
                  SumSeq([r \in 1..rows |-> c.t_values[k][r][j].tu + c.t_values[k][r][j].tv]) % M = 0

\* A mix of three votes in which one ballot's rows carry offsets that are
\* not zero and cancel.
C35_Witness ==
    /\ mix_result = "ok"
    /\ num_votes = 3
    /\ LET t == get_sbb_contents(SubSeq(db, 1, flushed), num_voters, twoM).t_values
       IN  \E k \in 1..twoM, j \in 1..num_votes :
               /\ (t[k][1][j].tu + t[k][1][j].tv) % M # 0
               /\ (t[k][2][j].tu + t[k][2][j].tv) % M # 0

\* Whether the opened unmixed value of a proof entry, with the key opened
\* beside it, reproduces a commitment of its side posted for its row in the
\* mixnet record of the round.
current_value_bound(c, list_idx, row_idx, sv) ==
    LET is_u == "u" \in DOMAIN sv
        com == get_COM(bigint_to_bytes(sv.k), bigint_to_bytes(IF is_u THEN sv.u ELSE sv.v))
    IN  \E p \in 1..Len(c.vote_lists[list_idx + 1]) :
            LET posted == c.vote_lists[list_idx + 1][p][row_idx]
            IN  com = (IF is_u THEN posted.com_u ELSE posted.com_v)

\* Whether none of the verifier's checks on the opened rows of the proof
\* fails.
rows_accepted(c) ==
    \A list_idx \in DOMAIN c.consistency_proof :
        \A vote_idx \in 1..Len(c.consistency_proof[list_idx]) :
            \A row_idx \in 1..Len(c.consistency_proof[list_idx][vote_idx]) :
                LET o == opened(c, list_idx, vote_idx, row_idx,
                                c.consistency_proof[list_idx][vote_idx][row_idx])
                IN  init_opens(o) /\ fin_opens(o) /\ t_agrees(o)

====
